---------------------------- MODULE Spec2Model ----------------------------
(***************************************************************************)
(* A model of jwt-cpp (mbedtls port), include/jwt-cpp/jwt.h: the claim     *)
(* wrapper, the compact-token decoder, the algorithms none / HMAC-SHA2 /   *)
(* ECDSA, the token builder and the verifier.                              *)
(*                                                                         *)
(* A std::string is a sequence of bytes (0..255).  A claim (the wrapped    *)
(* picojson::value) is a pair <<type, content>>.  Time points are whole    *)
(* seconds since the epoch.                                                *)
(*                                                                         *)
(* Two idioms keep the evaluation of long strings cheap and change no      *)
(* value: CHOOSE r \in {F(v) : v \in {x}} : TRUE is F(x) with x evaluated  *)
(* once, and s \o <<>> is s.                                               *)
(***************************************************************************)
EXTENDS Integers, Sequences, FiniteSets, TLC

(***************************************************************************)
(* Strings of the program, as byte sequences.                              *)
(***************************************************************************)
S_alg == <<97, 108, 103>>
S_typ == <<116, 121, 112>>
S_aud == <<97, 117, 100>>
S_exp == <<101, 120, 112>>
S_nbf == <<110, 98, 102>>
S_iat == <<105, 97, 116>>
S_iss == <<105, 115, 115>>
S_none == <<110, 111, 110, 101>>
S_HS256 == <<72, 83, 50, 53, 54>>
S_HS384 == <<72, 83, 51, 56, 52>>
S_HS512 == <<72, 83, 53, 49, 50>>
S_ES256 == <<69, 83, 50, 53, 54>>
S_ES384 == <<69, 83, 51, 56, 52>>
S_ES512 == <<69, 83, 53, 49, 50>>
S_true == <<116, 114, 117, 101>>
S_false == <<102, 97, 108, 115, 101>>
S_null == <<110, 117, 108, 108>>

\* '.', the separator of the compact serialization
DOT == 46
\* alphabet::base64url::fill(), modelled as the single character '='
FILL == 61
QUOTE == 34
COMMA == 44
COLON == 58
MINUS == 45
LBRACKET == 91
RBRACKET == 93
LBRACE == 123
RBRACE == 125
ZERO == 48

(***************************************************************************)
(* Sequence helpers.                                                       *)
(***************************************************************************)
Min(a, b) == IF a < b THEN a ELSE b

\* std::string::substr(pos) and substr(pos, n), 0-based pos
substr(s, pos, n) == SubSeq(s, pos + 1, Min(pos + n, Len(s)))

\* std::string::find(ch, from): the 0-based index of the first ch at or after
\* from, or -1 (npos)
find(s, ch, from) ==
    IF \E i \in (from + 1)..Len(s) : s[i] = ch
      THEN (CHOOSE i \in (from + 1)..Len(s) :
              s[i] = ch /\ \A j \in (from + 1)..(i - 1) : s[j] # ch) - 1
      ELSE -1

\* lexicographic order of byte strings (std::less<std::string>)
StrLess(a, b) ==
    \E k \in 0..Min(Len(a), Len(b)) :
        /\ \A j \in 1..k : a[j] = b[j]
        /\ \/ (k = Len(a) /\ k < Len(b))
           \/ (k < Len(a) /\ k < Len(b) /\ a[k + 1] < b[k + 1])

RECURSIVE SortedStrings(_)
\* the elements of a set of strings in ascending order (iteration order of
\* std::set<std::string> and of picojson::object, a std::map)
SortedStrings(S) ==
    IF S = {} THEN <<>>
    ELSE LET m == CHOOSE x \in S : \A y \in S \ {x} : StrLess(x, y)
         IN <<m>> \o SortedStrings(S \ {m})

RECURSIVE Concat(_)
Concat(ss) == IF ss = <<>> THEN <<>> ELSE Head(ss) \o Concat(Tail(ss))

(***************************************************************************)
(* base64url codec (base.h): encode pads with the fill character, decode   *)
(* fails on any character outside the alphabet.                            *)
(***************************************************************************)
Alphabet ==
    [i \in 1..64 |-> IF i <= 26 THEN 64 + i
                     ELSE IF i <= 52 THEN 70 + i
                     ELSE IF i <= 62 THEN i - 5
                     ELSE IF i = 63 THEN 45 ELSE 95]

\* the 6-bit value of a character, -1 for a character outside the alphabet
Sextet(c) ==
    IF c >= 65 /\ c <= 90 THEN c - 65
    ELSE IF c >= 97 /\ c <= 122 THEN c - 71
    ELSE IF c >= 48 /\ c <= 57 THEN c + 4
    ELSE IF c = 45 THEN 62
    ELSE IF c = 95 THEN 63
    ELSE -1

RECURSIVE Pow2(_)
Pow2(k) == IF k = 0 THEN 1 ELSE 2 * Pow2(k - 1)

\* base::encode: four characters for every three bytes, the last group filled
base_encode(bin) ==
    CHOOSE r \in
      {LET n == Len(b)
           groups == (n + 2) \div 3
           B(j) == IF j <= n THEN b[j] ELSE 0
       IN [i \in 1..(4 * groups) |->
             LET g == (i - 1) \div 4
                 k == (i - 1) % 4
                 avail == Min(3, n - 3 * g)
                 triple == B(3 * g + 1) * 65536 + B(3 * g + 2) * 256 + B(3 * g + 3)
             IN IF k > avail THEN FILL
                ELSE Alphabet[((triple \div Pow2(6 * (3 - k))) % 64) + 1]] \o <<>>
       : b \in {bin}} : TRUE

\* the number of fill characters at the end of a text
RECURSIVE TrailingFill(_)
TrailingFill(s) ==
    IF s # <<>> /\ s[Len(s)] = FILL
      THEN 1 + TrailingFill(SubSeq(s, 1, Len(s) - 1))
      ELSE 0

\* [ok |-> FALSE] (std::runtime_error "Invalid input") or [ok |-> TRUE, bin |-> bytes]
base_decode(base) ==
    CHOOSE res \in
      {IF \/ TrailingFill(b) > 2
          \/ Len(b) % 4 # 0
          \/ \E i \in 1..(Len(b) - TrailingFill(b)) : Sextet(b[i]) < 0
         THEN [ok |-> FALSE, bin |-> <<>>]
         ELSE [ok |-> TRUE,
               bin |-> [j \in 1..(((Len(b) - TrailingFill(b)) * 6) \div 8) |->
                          LET off == 8 * (j - 1)
                              q == off \div 6
                              r == off % 6
                          IN ((Sextet(b[q + 1]) * 64 + Sextet(b[q + 2]))
                                \div Pow2(4 - r)) % 256] \o <<>>]
       : b \in {base}} : TRUE

(***************************************************************************)
(* Claims: a claim wraps a picojson::value, here the pair <<type, content>>.*)
(*   <<"null", <<>>>>   <<"boolean", b>>   <<"int64", n>>                  *)
(*   <<"number", n>>    a double, n counted in tenths (15 is 1.5)          *)
(*   <<"string", bytes>>   <<"array", <<claim, ...>>>>                     *)
(*   <<"object", [name -> claim]>>                                         *)
(* A claim set (std::unordered_map<std::string, claim>) is a function from *)
(* the names present to their claims.                                      *)
(***************************************************************************)
TypeOf(c) == c[1]
Val(c) == c[2]
NullClaim == <<"null", <<>>>>
BoolClaim(b) == <<"boolean", b>>
IntClaim(n) == <<"int64", n>>
NumberClaim(n) == <<"number", n>>
\* claim(std::string)
StringClaim(s) == <<"string", s>>
\* claim(const date&): int64_t(to_time_t(d))
DateClaim(d) == <<"int64", d>>
\* claim(const std::set<std::string>&): picojson::array(s.cbegin(), s.cend())
SetClaim(S) == <<"array", [i \in 1..Cardinality(S) |-> StringClaim(SortedStrings(S)[i])]>>

EmptyClaims == [n \in {} |-> NullClaim]
\* m[id] = c
Put(m, id, c) == [n \in DOMAIN m \cup {id} |-> IF n = id THEN c ELSE m[n]]

(***************************************************************************)
(* JSON codec (picojson.h): serialize writes an object with its members    *)
(* in key order and no white space; parse reads one value spanning the     *)
(* whole text.  Strings hold no quote or escape characters here.           *)
(***************************************************************************)
RECURSIVE Digits(_)
Digits(n) == IF n < 10 THEN <<ZERO + n>> ELSE Digits(n \div 10) \o <<ZERO + (n % 10)>>

Abs(n) == IF n < 0 THEN -n ELSE n
SignChars(n) == IF n < 0 THEN <<MINUS>> ELSE <<>>

RECURSIVE Join(_, _)
Join(ss, sep) ==
    IF ss = <<>> THEN <<>>
    ELSE IF Len(ss) = 1 THEN ss[1]
    ELSE ss[1] \o <<sep>> \o Join(Tail(ss), sep)

RECURSIVE serialize(_)
serialize(c) ==
    CASE TypeOf(c) = "null" -> S_null
      [] TypeOf(c) = "boolean" -> IF Val(c) THEN S_true ELSE S_false
      [] TypeOf(c) = "int64" -> SignChars(Val(c)) \o Digits(Abs(Val(c)))
      [] TypeOf(c) = "number" ->
           SignChars(Val(c)) \o Digits(Abs(Val(c)) \div 10) \o <<DOT>> \o Digits(Abs(Val(c)) % 10)
      [] TypeOf(c) = "string" -> <<QUOTE>> \o Val(c) \o <<QUOTE>>
      [] TypeOf(c) = "array" ->
           <<LBRACKET>> \o Join([i \in 1..Len(Val(c)) |-> serialize(Val(c)[i])], COMMA)
             \o <<RBRACKET>>
      [] TypeOf(c) = "object" ->
           LET keys == SortedStrings(DOMAIN Val(c))
           IN <<LBRACE>>
                \o Join([i \in 1..Len(keys) |->
                           <<QUOTE>> \o keys[i] \o <<QUOTE, COLON>> \o serialize(Val(c)[keys[i]])],
                        COMMA)
                \o <<RBRACE>>

At(s, i) == IF i >= 1 /\ i <= Len(s) THEN s[i] ELSE -1
IsDigit(ch) == ch >= ZERO /\ ch <= ZERO + 9
ParseFail == [ok |-> FALSE, val |-> NullClaim, pos |-> 0]
ParseOk(c, p) == [ok |-> TRUE, val |-> c, pos |-> p]

\* the first index at or after i that holds no digit
RECURSIVE DigitsEnd(_, _)
DigitsEnd(s, i) == IF IsDigit(At(s, i)) THEN DigitsEnd(s, i + 1) ELSE i

RECURSIVE DigitsValue(_)
DigitsValue(d) ==
    IF d = <<>> THEN 0 ELSE 10 * DigitsValue(SubSeq(d, 1, Len(d) - 1)) + (d[Len(d)] - ZERO)

\* a number without fraction is an int64 (PICOJSON_USE_INT64), with one a double
ParseNumber(s, i) ==
    LET neg == At(s, i) = MINUS
        start == IF neg THEN i + 1 ELSE i
        j == DigitsEnd(s, start)
        ip == DigitsValue(SubSeq(s, start, j - 1))
        k == DigitsEnd(s, j + 1)
    IN IF j = start THEN ParseFail
       ELSE IF At(s, j) # DOT THEN ParseOk(IntClaim(IF neg THEN -ip ELSE ip), j)
       ELSE IF k # j + 2 THEN ParseFail
       ELSE LET tenths == 10 * ip + (s[j + 1] - ZERO)
            IN ParseOk(NumberClaim(IF neg THEN -tenths ELSE tenths), k)

ParseString(s, i) ==
    LET j == find(s, QUOTE, i)
    IN IF At(s, i) # QUOTE \/ j < 0 THEN ParseFail
       ELSE ParseOk(StringClaim(SubSeq(s, i + 1, j)), j + 2)

ParseLiteral(s, i, lit, c) ==
    IF SubSeq(s, i, Min(i + Len(lit) - 1, Len(s))) = lit THEN ParseOk(c, i + Len(lit))
    ELSE ParseFail

RECURSIVE ParseValue(_, _), ParseElems(_, _, _), ParseMembers(_, _, _)
ParseValue(s, i) ==
    LET ch == At(s, i)
    IN CASE ch = QUOTE -> ParseString(s, i)
         [] ch = MINUS \/ IsDigit(ch) -> ParseNumber(s, i)
         [] ch = LBRACKET ->
              IF At(s, i + 1) = RBRACKET THEN ParseOk(<<"array", <<>>>>, i + 2)
              ELSE ParseElems(s, i + 1, <<>>)
         [] ch = LBRACE ->
              IF At(s, i + 1) = RBRACE THEN ParseOk(<<"object", EmptyClaims>>, i + 2)
              ELSE ParseMembers(s, i + 1, EmptyClaims)
         [] ch = S_true[1] -> ParseLiteral(s, i, S_true, BoolClaim(TRUE))
         [] ch = S_false[1] -> ParseLiteral(s, i, S_false, BoolClaim(FALSE))
         [] ch = S_null[1] -> ParseLiteral(s, i, S_null, NullClaim)
         [] OTHER -> ParseFail

ParseElems(s, i, acc) ==
    LET e == ParseValue(s, i)
    IN IF ~e.ok THEN ParseFail
       ELSE IF At(s, e.pos) = COMMA THEN ParseElems(s, e.pos + 1, Append(acc, e.val))
       ELSE IF At(s, e.pos) = RBRACKET THEN ParseOk(<<"array", Append(acc, e.val)>>, e.pos + 1)
       ELSE ParseFail

ParseMembers(s, i, acc) ==
    LET k == ParseString(s, i)
        e == ParseValue(s, k.pos + 1)
        m == Put(acc, Val(k.val), e.val)
    IN IF ~k.ok \/ At(s, k.pos) # COLON THEN ParseFail
       ELSE IF ~e.ok THEN ParseFail
       ELSE IF At(s, e.pos) = COMMA THEN ParseMembers(s, e.pos + 1, m)
       ELSE IF At(s, e.pos) = RBRACE THEN ParseOk(<<"object", m>>, e.pos + 1)
       ELSE ParseFail

\* picojson::parse(val, str): [ok |-> FALSE] when the error string is not empty
parse(str) ==
    CHOOSE res \in
      {IF r.ok /\ r.pos = Len(s) + 1 THEN [ok |-> TRUE, val |-> r.val]
       ELSE [ok |-> FALSE, val |-> NullClaim]
       : <<s, r>> \in {<<s1, ParseValue(s1, 1)>> : s1 \in {str}}} : TRUE

(***************************************************************************)
(* The primitive operations of mbedtls, which the program only calls: a    *)
(* deterministic digest of md_size(md) bytes stands for the hash and the   *)
(* keyed hash.                                                             *)
(***************************************************************************)
\* mbedtls_md_get_size: 32, 48, 64 bytes for SHA-256, SHA-384, SHA-512
md_size(md) == md \div 8

\* a position-weighted checksum of a byte string: changing one byte changes it
RECURSIVE WSum(_, _, _)
WSum(bytes, lo, hi) ==
    IF lo > hi THEN 0
    ELSE IF lo = hi THEN ((bytes[lo] + 1) * (lo * lo + 3 * lo + 1)) % 65521
    ELSE LET mid == (lo + hi) \div 2
         IN (WSum(bytes, lo, mid) + WSum(bytes, mid + 1, hi)) % 65521

Mix(bytes, h) ==
    CHOOSE r \in {(3 * WSum(b, 1, Len(b)) + 7 * h + Len(b)) % 65521 : b \in {bytes}} : TRUE

Digest(seed, md) ==
    CHOOSE r \in
      {[i \in 1..md_size(md) |-> ((s \div 256) * i + (s % 256) * (2 * i + 1) + i * i) % 256]
         \o <<>> : s \in {seed}} : TRUE

\* mbedtls_md_starts / update / finish
generate_hash(data, md) == Digest(Mix(data, md), md)

\* mbedtls_md_hmac_starts / update / finish
md_hmac(secret, data, md) == Digest(Mix(data, Mix(secret, md + 1)), md)

(***************************************************************************)
(* Algorithms.  An instance is a record: kind, name, md (the hash width),  *)
(* secret (HMAC), and the ECDSA key pair Q (public) and d (private, 0 when *)
(* the instance holds none).                                               *)
(***************************************************************************)
none == [kind |-> "none", name |-> S_none, md |-> 0, secret |-> <<>>, Q |-> 0, d |-> 0]
hmacsha(key, md, name) ==
    [kind |-> "hmacsha", name |-> name, md |-> md, secret |-> key, Q |-> 0, d |-> 0]
hs256(key) == hmacsha(key, 256, S_HS256)
hs384(key) == hmacsha(key, 384, S_HS384)
hs512(key) == hmacsha(key, 512, S_HS512)
ecdsa(keypair, md, name) ==
    [kind |-> "ecdsa", name |-> name, md |-> md, secret |-> <<>>,
     Q |-> keypair.Q, d |-> keypair.d]
es256(keypair) == ecdsa(keypair, 256, S_ES256)
es384(keypair) == ecdsa(keypair, 384, S_ES384)
es512(keypair) == ecdsa(keypair, 512, S_ES512)

\* the results of sign: the signature, or a thrown signature_generation_exception
Signed(sig) == [ok |-> TRUE, sig |-> sig]
SignFailed == [ok |-> FALSE, sig |-> <<>>]

none_sign(data) == Signed(<<>>)
\* TRUE: returns; FALSE: throws signature_verification_exception
\* C10 mutant: verify returns whatever the signature is
none_verify_any(data, signature) == TRUE

none_verify(data, signature) == signature = <<>>

hmacsha_sign(a, data) == Signed(md_hmac(a.secret, data, a.md))

\* the for loop of hmacsha::verify from index i - 1 on (lines 198-200):
\* matched as the loop leaves it, and the number of positions it has read
RECURSIVE hmacsha_compare(_, _, _, _)
hmacsha_compare(res, signature, i, matched) ==
    IF i > Min(Len(res), Len(signature)) THEN [matched |-> matched, visited |-> i - 1]
    ELSE hmacsha_compare(res, signature, i + 1, matched /\ res[i] = signature[i])

\* C18 mutant: the sizes are not compared
hmacsha_verify_overlap(a, data, signature) ==
    hmacsha_compare(hmacsha_sign(a, data).sig, signature, 1, TRUE).matched

hmacsha_verify(a, data, signature) ==
    LET res == hmacsha_sign(a, data).sig
        loop == hmacsha_compare(res, signature, 1, TRUE)
    IN IF Len(res) # Len(signature) THEN FALSE ELSE loop.matched

\* mbedtls_mpi_read_binary: a big-endian integer, kept as its bytes without
\* leading zeros (<<>> is 0)
RECURSIVE mpi_read_binary(_)
mpi_read_binary(buf) ==
    IF buf # <<>> /\ Head(buf) = 0 THEN mpi_read_binary(Tail(buf)) ELSE buf

\* data[0] is read even when size is 0: the byte after the range (the
\* terminator of an empty std::string is 0)
raw2bn(data, size) ==
    IF size > 0 /\ data[1] >= 128 THEN mpi_read_binary(<<0>> \o SubSeq(data, 1, size))
    ELSE mpi_read_binary(SubSeq(data, 1, size))

\* mbedtls_ecdsa_sign with the nonce k drawn from the instance's generator:
\* ret # 0 without a private key
primitive_ecdsa_sign(a, hash, k) ==
    LET r == <<(k % 255) + 1>>
    IN [ret |-> IF a.d = 0 THEN 1 ELSE 0,
        r |-> r,
        s |-> <<(Mix(hash \o r, a.d) % 255) + 1>>]

\* mbedtls_ecdsa_verify: 0 when (r, s) is a signature of hash under Q; a key
\* pair has Q = d in this model
primitive_ecdsa_verify(a, hash, r, s) ==
    IF r # <<>> /\ s # <<>> /\ Len(r) = 1 /\ s = <<(Mix(hash \o r, a.Q) % 255) + 1>>
      THEN 0 ELSE 1

\* sig is an empty std::string that is never resized: both raw2bn calls store
\* the integer read from its zero bytes into r, and sig is returned as it is
ecdsa_sign(a, data, k) ==
    LET hash == generate_hash(data, a.md)
        sig == <<>>
        p == primitive_ecdsa_sign(a, hash, k)
        r1 == raw2bn(sig, Len(sig) \div 2)
        r2 == raw2bn(SubSeq(sig, Len(sig) \div 2 + 1, Len(sig)), Len(sig) \div 2)
    IN IF p.ret # 0 THEN SignFailed
       ELSE IF Len(sig) % 2 = 1 /\ sig[1] = 0 THEN Signed(Tail(sig))
       ELSE Signed(sig)

ecdsa_verify(a, data, signature) ==
    LET hash == generate_hash(data, a.md)
        half == Len(signature) \div 2
        r == raw2bn(signature, half)
        s == raw2bn(SubSeq(signature, half + 1, Len(signature)), half)
    IN primitive_ecdsa_verify(a, hash, r, s) = 0

\* algo.name(), algo.sign(data), algs.at(name)->verify(data, sig)
algo_name(a) == a.name
algo_sign(a, data, k) ==
    CASE a.kind = "none" -> none_sign(data)
      [] a.kind = "hmacsha" -> hmacsha_sign(a, data)
      [] a.kind = "ecdsa" -> ecdsa_sign(a, data, k)
algo_verify(a, data, sig) ==
    CASE a.kind = "none" -> none_verify(data, sig)
      [] a.kind = "hmacsha" -> hmacsha_verify(a, data, sig)
      [] a.kind = "ecdsa" -> ecdsa_verify(a, data, sig)

(***************************************************************************)
(* builder::sign                                                           *)
(***************************************************************************)
\* the lambda encode of builder::sign: base64url without the fill characters
encode(data) ==
    LET base == base_encode(data)
        pos == find(base, FILL, 0)
    IN IF pos < 0 THEN base ELSE substr(base, 0, pos)

\* C27 mutant: a claim that is set already keeps its value (insert)
set_claim_insert(m, id, c) == IF id \in DOMAIN m THEN m ELSE Put(m, id, c)

\* builder::set_header_claim / set_payload_claim
set_claim(m, id, c) == Put(m, id, c)

\* C12 mutant: alg is set only where the caller has set none
builder_sign_keep_alg(header_claims, payload_claims, algo, k) ==
    LET hc == IF S_alg \in DOMAIN header_claims THEN header_claims
              ELSE set_claim(header_claims, S_alg, StringClaim(algo_name(algo)))
        header == encode(serialize(<<"object", hc>>))
        payload == encode(serialize(<<"object", payload_claims>>))
    IN CHOOSE res \in
         {[ok |-> sg.ok,
           token |-> IF sg.ok THEN token \o <<DOT>> \o encode(sg.sig) ELSE <<>>,
           header_claims |-> hc]
          : <<token, sg>> \in {<<tk, algo_sign(algo, tk, k)>>
                                 : tk \in {header \o <<DOT>> \o payload}}} : TRUE

\* [ok, token, header_claims]: the token returned (ok) or the exception of
\* algo.sign, and the builder's header claims after the call
builder_sign(header_claims, payload_claims, algo, k) ==
    LET hc == set_claim(header_claims, S_alg, StringClaim(algo_name(algo)))
        header == encode(serialize(<<"object", hc>>))
        payload == encode(serialize(<<"object", payload_claims>>))
    IN CHOOSE res \in
         {[ok |-> sg.ok,
           token |-> IF sg.ok THEN token \o <<DOT>> \o encode(sg.sig) ELSE <<>>,
           header_claims |-> hc]
          : <<token, sg>> \in {<<tk, algo_sign(algo, tk, k)>>
                                 : tk \in {header \o <<DOT>> \o payload}}} : TRUE

(***************************************************************************)
(* decoded_jwt::decoded_jwt                                                *)
(***************************************************************************)
\* C1 mutant: every case of the switch ends with a break, so one fill
\* character is added whatever the remainder
fix_padding_break(str) ==
    IF Len(str) % 4 = 0 THEN str ELSE str \o <<FILL>>

fix_padding(str) ==
    CASE Len(str) % 4 = 1 -> str \o <<FILL, FILL, FILL>>
      [] Len(str) % 4 = 2 -> str \o <<FILL, FILL>>
      [] Len(str) % 4 = 3 -> str \o <<FILL>>
      [] OTHER -> str

\* [ok |-> FALSE] is std::runtime_error("Invalid json"), or the failed
\* val.get<picojson::object>() of a value that is no object
parse_claims(str) ==
    LET r == parse(str)
    IN IF r.ok /\ TypeOf(r.val) = "object" THEN [ok |-> TRUE, claims |-> Val(r.val)]
       ELSE [ok |-> FALSE, claims |-> EmptyClaims]

NoJwt(err, token) ==
    [err |-> err, token |-> token,
     header |-> <<>>, header_base64 |-> <<>>,
     payload |-> <<>>, payload_base64 |-> <<>>,
     signature |-> <<>>, signature_base64 |-> <<>>,
     header_claims |-> EmptyClaims, payload_claims |-> EmptyClaims]

\* C21 mutant: the signature segment ends at the third '.'
decoded_jwt_parts_third(token, hdr_end, payload_end) ==
    LET header_base64 == substr(token, 0, hdr_end)
        payload_base64 == substr(token, hdr_end + 1, payload_end - hdr_end - 1)
        sig_end == find(token, DOT, payload_end + 1)
        signature_base64 ==
            IF sig_end < 0 THEN substr(token, payload_end + 1, Len(token))
            ELSE substr(token, payload_end + 1, sig_end - payload_end - 1)
    IN CHOOSE res \in
         {IF ~header.ok \/ ~payload.ok \/ ~signature.ok THEN NoJwt("runtime_error", token)
          ELSE CHOOSE res2 \in
                 {IF ~hc.ok \/ ~pc.ok THEN NoJwt("runtime_error", token)
                  ELSE [err |-> "", token |-> token,
                        header |-> header.bin, header_base64 |-> header_base64,
                        payload |-> payload.bin, payload_base64 |-> payload_base64,
                        signature |-> signature.bin, signature_base64 |-> signature_base64,
                        header_claims |-> hc.claims, payload_claims |-> pc.claims]
                  : hc \in {parse_claims(header.bin)}, pc \in {parse_claims(payload.bin)}} : TRUE
          : header \in {base_decode(fix_padding(header_base64))},
            payload \in {base_decode(fix_padding(payload_base64))},
            signature \in {base_decode(fix_padding(signature_base64))}} : TRUE

\* C26 mutant: fix_padding works on the members header_base64,
\* payload_base64 and signature_base64 themselves
decoded_jwt_parts_padded(token, hdr_end, payload_end) ==
    LET header_base64 == fix_padding(substr(token, 0, hdr_end))
        payload_base64 == fix_padding(substr(token, hdr_end + 1, payload_end - hdr_end - 1))
        signature_base64 == fix_padding(substr(token, payload_end + 1, Len(token)))
    IN CHOOSE res \in
         {IF ~header.ok \/ ~payload.ok \/ ~signature.ok THEN NoJwt("runtime_error", token)
          ELSE CHOOSE res2 \in
                 {IF ~hc.ok \/ ~pc.ok THEN NoJwt("runtime_error", token)
                  ELSE [err |-> "", token |-> token,
                        header |-> header.bin, header_base64 |-> header_base64,
                        payload |-> payload.bin, payload_base64 |-> payload_base64,
                        signature |-> signature.bin, signature_base64 |-> signature_base64,
                        header_claims |-> hc.claims, payload_claims |-> pc.claims]
                  : hc \in {parse_claims(header.bin)}, pc \in {parse_claims(payload.bin)}} : TRUE
          : header \in {base_decode(header_base64)},
            payload \in {base_decode(payload_base64)},
            signature \in {base_decode(signature_base64)}} : TRUE

\* the constructor once both separators are found
decoded_jwt_parts(token, hdr_end, payload_end) ==
    LET header_base64 == substr(token, 0, hdr_end)
        payload_base64 == substr(token, hdr_end + 1, payload_end - hdr_end - 1)
        signature_base64 == substr(token, payload_end + 1, Len(token))
    IN CHOOSE res \in
         {IF ~header.ok \/ ~payload.ok \/ ~signature.ok THEN NoJwt("runtime_error", token)
          ELSE CHOOSE res2 \in
                 {IF ~hc.ok \/ ~pc.ok THEN NoJwt("runtime_error", token)
                  ELSE [err |-> "", token |-> token,
                        header |-> header.bin, header_base64 |-> header_base64,
                        payload |-> payload.bin, payload_base64 |-> payload_base64,
                        signature |-> signature.bin, signature_base64 |-> signature_base64,
                        header_claims |-> hc.claims, payload_claims |-> pc.claims]
                  : hc \in {parse_claims(header.bin)}, pc \in {parse_claims(payload.bin)}} : TRUE
          : header \in {base_decode(fix_padding(header_base64))},
            payload \in {base_decode(fix_padding(payload_base64))},
            signature \in {base_decode(fix_padding(signature_base64))}} : TRUE

\* C11 mutant: the test of the second find is left out, the rest of the
\* string after the first '.' is the payload and the signature is empty
decoded_jwt_one_separator(token) ==
    CHOOSE res \in
      {IF hdr_end < 0 THEN NoJwt("invalid_argument", tk)
       ELSE CHOOSE res2 \in
              {IF payload_end < 0 THEN decoded_jwt_parts(tk, hdr_end, Len(tk))
               ELSE decoded_jwt_parts(tk, hdr_end, payload_end)
               : payload_end \in {find(tk, DOT, hdr_end + 1)}} : TRUE
       : <<tk, hdr_end>> \in {<<t1, find(t1, DOT, 0)>> : t1 \in {token}}} : TRUE

\* err = "": the object is constructed; "invalid_argument" and "runtime_error"
\* are the exceptions of the constructor
decoded_jwt(token) ==
    CHOOSE res \in
      {IF hdr_end < 0 THEN NoJwt("invalid_argument", tk)
       ELSE CHOOSE res2 \in
              {IF payload_end < 0 THEN NoJwt("invalid_argument", tk)
               ELSE decoded_jwt_parts(tk, hdr_end, payload_end)
               : payload_end \in {find(tk, DOT, hdr_end + 1)}} : TRUE
       : <<tk, hdr_end>> \in {<<t1, find(t1, DOT, 0)>> : t1 \in {token}}} : TRUE

(***************************************************************************)
(* Claim accessors.  [ok |-> FALSE] is the std::bad_cast of the accessor.  *)
(***************************************************************************)
\* std::runtime_error("claim not found") and std::bad_cast
ClaimNotFound == "claim not found"
ClaimTypeMismatch == "bad_cast"

Got(x) == [ok |-> TRUE, v |-> x, err |-> ""]
BadCast(x) == [ok |-> FALSE, v |-> x, err |-> ClaimTypeMismatch]
NotFound(x) == [ok |-> FALSE, v |-> x, err |-> ClaimNotFound]

get_type(c) == TypeOf(c)
as_string(c) == IF TypeOf(c) = "string" THEN Got(Val(c)) ELSE BadCast(<<>>)
\* C24 mutant: a Float is truncated to its whole seconds
as_int_truncating(c) ==
    IF TypeOf(c) = "int64" THEN Got(Val(c))
    ELSE IF TypeOf(c) = "number" THEN Got(Val(c) \div 10)
    ELSE BadCast(0)

as_int(c) == IF TypeOf(c) = "int64" THEN Got(Val(c)) ELSE BadCast(0)
\* std::chrono::system_clock::from_time_t(as_int())
as_date(c) == as_int(c)
as_array(c) == IF TypeOf(c) = "array" THEN Got(Val(c)) ELSE BadCast(<<>>)
as_set(c) ==
    LET a == as_array(c)
    IN IF ~a.ok THEN BadCast({})
       ELSE IF \E i \in 1..Len(a.v) : TypeOf(a.v[i]) # "string" THEN BadCast({})
       ELSE Got({Val(a.v[i]) : i \in 1..Len(a.v)})

has_claim(m, name) == name \in DOMAIN m

\* C14 mutant: no special case for a String aud
get_audience_set_only(payload_claims) ==
    IF ~has_claim(payload_claims, S_aud) THEN NotFound({})
    ELSE as_set(payload_claims[S_aud])

\* get_payload_claim("aud") throws where the claim is absent
get_audience(payload_claims) ==
    IF ~has_claim(payload_claims, S_aud) THEN NotFound({})
    ELSE LET aud == payload_claims[S_aud]
         IN IF get_type(aud) = "string" THEN Got({as_string(aud).v}) ELSE as_set(aud)

(***************************************************************************)
(* verifier::verify.  The result is [error, trace]: error is "" when       *)
(* verify returns and names the exception otherwise; trace lists, in       *)
(* order, what the call read.                                              *)
(*   signature_verification_exception     "signature verification failed"  *)
(*   token_verification_exception(msg)    the message, without the claim   *)
(*                                        name                             *)
(*   std::runtime_error("claim not found")  "claim not found"              *)
(*   std::bad_cast                          "bad_cast"                     *)
(***************************************************************************)
SignatureError == "signature verification failed"
UnsupportedAlgorithm == "wrong algorithm"
ExpiredToken == "token expired"
\* the kind the specification gives a token used before its nbf; no throw
\* statement of verify produces it
NotYetValid == "token not yet valid"
AudienceMismatch == "token doesn't contain the required audience"
MissingClaim == "decoded_jwt is missing claim"
TypeMismatch == "claim type mismatch"
ValueMismatch == "claim does not match expected"
InternalError == "internal error"
\* the messages of a required claim that is absent, of another type or of
\* another value
ClaimMismatch == {MissingClaim, TypeMismatch, ValueMismatch}

R(error, trace) == [error |-> error, trace |-> trace]
\* r, and when r did not throw, what follows it
AndThen(r, next) ==
    IF r.error # "" THEN r ELSE R(next.error, r.trace \o next.trace)

\* C19 mutant: the signing input is rebuilt from the decoded claims
signing_input_reencoded(jwt) ==
    encode(serialize(<<"object", jwt.header_claims>>)) \o <<DOT>>
      \o encode(serialize(<<"object", jwt.payload_claims>>))

\* line 1456: jwt.get_header_base64() + "." + jwt.get_payload_base64()
signing_input(jwt) == jwt.header_base64 \o <<DOT>> \o jwt.payload_base64

\* C25 mutant: a header without a String alg is taken as alg "none"
verify_signature_default_none(jwt, algs) ==
    LET data == signing_input(jwt)
        sig == jwt.signature
        hc == jwt.header_claims
        algo == IF has_claim(hc, S_alg) /\ as_string(hc[S_alg]).ok
                  THEN as_string(hc[S_alg]).v ELSE S_none
    IN IF algo \notin DOMAIN algs
         THEN R(UnsupportedAlgorithm, <<"header.alg", "algs.count">>)
       ELSE IF ~algo_verify(algs[algo], data, sig)
         THEN R(SignatureError, <<"header.alg", "algs.count", "algo.verify">>)
       ELSE R("", <<"header.alg", "algs.count", "algo.verify">>)

\* C2 mutant: no algs.count test, a token whose algorithm is not registered
\* is let through
verify_signature_unlisted(jwt, algs) ==
    LET data == signing_input(jwt)
        hc == jwt.header_claims
    IN IF ~has_claim(hc, S_alg) THEN R(ClaimNotFound, <<"header.alg">>)
       ELSE IF ~as_string(hc[S_alg]).ok THEN R(ClaimTypeMismatch, <<"header.alg">>)
       ELSE LET algo == as_string(hc[S_alg]).v
            IN IF algo \notin DOMAIN algs THEN R("", <<"header.alg">>)
               ELSE IF ~algo_verify(algs[algo], data, jwt.signature)
                 THEN R(SignatureError, <<"header.alg", "algs.count", "algo.verify">>)
               ELSE R("", <<"header.alg", "algs.count", "algo.verify">>)

\* lines 1456-1461: the signing input, the lookup of the algorithm, its verify
verify_signature(jwt, algs) ==
    LET data == signing_input(jwt)
        sig == jwt.signature
        hc == jwt.header_claims
    IN IF ~has_claim(hc, S_alg) THEN R(ClaimNotFound, <<"header.alg">>)
       ELSE IF ~as_string(hc[S_alg]).ok THEN R(ClaimTypeMismatch, <<"header.alg">>)
       ELSE LET algo == as_string(hc[S_alg]).v
            IN IF algo \notin DOMAIN algs
                 THEN R(UnsupportedAlgorithm, <<"header.alg", "algs.count">>)
               ELSE IF ~algo_verify(algs[algo], data, sig)
                 THEN R(SignatureError, <<"header.alg", "algs.count", "algo.verify">>)
               ELSE R("", <<"header.alg", "algs.count", "algo.verify">>)

\* C17 mutant: the leeway set for exp is taken for every time claim
leeway_of_exp(claims, default_leeway, name) ==
    IF has_claim(claims, S_exp) THEN as_date(claims[S_exp]) ELSE Got(default_leeway)

\* claims.count(name) == 1 ? to_time_t(claims.at(name).as_date()) : default_leeway
leeway_of(claims, default_leeway, name) ==
    IF has_claim(claims, name) THEN as_date(claims[name]) ELSE Got(default_leeway)

\* C5 mutant: the comparison is >= instead of >
verify_exp_strict(jwt, claims, default_leeway, time) ==
    IF ~has_claim(jwt.payload_claims, S_exp) THEN R("", <<>>)
    ELSE LET leeway == leeway_of(claims, default_leeway, S_exp)
             exp == as_date(jwt.payload_claims[S_exp])
         IN IF ~leeway.ok \/ ~exp.ok THEN R(ClaimTypeMismatch, <<"payload.exp">>)
            ELSE IF time >= exp.v + leeway.v THEN R("token expired", <<"payload.exp">>)
            ELSE R("", <<"payload.exp">>)

\* C22 mutant: a token without exp is checked as one that expires at 0
verify_exp_absent_zero(jwt, claims, default_leeway, time) ==
    LET leeway == leeway_of(claims, default_leeway, S_exp)
        exp == IF has_claim(jwt.payload_claims, S_exp)
                 THEN as_date(jwt.payload_claims[S_exp]) ELSE Got(0)
    IN IF ~leeway.ok \/ ~exp.ok THEN R(ClaimTypeMismatch, <<"payload.exp">>)
       ELSE IF time > exp.v + leeway.v THEN R("token expired", <<"payload.exp">>)
       ELSE R("", <<"payload.exp">>)

\* lines 1494-1499
verify_exp(jwt, claims, default_leeway, time) ==
    IF ~has_claim(jwt.payload_claims, S_exp) THEN R("", <<>>)
    ELSE LET leeway == leeway_of(claims, default_leeway, S_exp)
             exp == as_date(jwt.payload_claims[S_exp])
         IN IF ~leeway.ok \/ ~exp.ok THEN R(ClaimTypeMismatch, <<"payload.exp">>)
            ELSE IF time > exp.v + leeway.v THEN R("token expired", <<"payload.exp">>)
            ELSE R("", <<"payload.exp">>)

\* lines 1500-1505
verify_iat(jwt, claims, default_leeway, time) ==
    IF ~has_claim(jwt.payload_claims, S_iat) THEN R("", <<>>)
    ELSE LET leeway == leeway_of(claims, default_leeway, S_iat)
             iat == as_date(jwt.payload_claims[S_iat])
         IN IF ~leeway.ok \/ ~iat.ok THEN R(ClaimTypeMismatch, <<"payload.iat">>)
            ELSE IF time < iat.v - leeway.v THEN R("token expired", <<"payload.iat">>)
            ELSE R("", <<"payload.iat">>)

\* lines 1506-1511
verify_nbf(jwt, claims, default_leeway, time) ==
    IF ~has_claim(jwt.payload_claims, S_nbf) THEN R("", <<>>)
    ELSE LET leeway == leeway_of(claims, default_leeway, S_nbf)
             nbf == as_date(jwt.payload_claims[S_nbf])
         IN IF ~leeway.ok \/ ~nbf.ok THEN R(ClaimTypeMismatch, <<"payload.nbf">>)
            ELSE IF time < nbf.v - leeway.v THEN R("token expired", <<"payload.nbf">>)
            ELSE R("", <<"payload.nbf">>)

\* lines 1463-1490: "" when the claim equals the expected one
assert_claim_eq(jwt, key, c) ==
    IF ~has_claim(jwt.payload_claims, key) THEN MissingClaim
    ELSE LET jc == jwt.payload_claims[key]
         IN IF get_type(jc) # get_type(c) THEN TypeMismatch
            ELSE IF get_type(c) = "int64"
              THEN IF as_date(c).v # as_date(jc).v THEN ValueMismatch ELSE ""
            ELSE IF get_type(c) = "array"
              THEN LET s1 == as_set(c)
                       s2 == as_set(jc)
                   IN IF ~s1.ok \/ ~s2.ok THEN ClaimTypeMismatch
                      ELSE IF Cardinality(s1.v) # Cardinality(s2.v) THEN ValueMismatch
                      ELSE IF SortedStrings(s1.v) # SortedStrings(s2.v) THEN ValueMismatch
                      ELSE ""
            ELSE IF get_type(c) = "string"
              THEN IF as_string(c).v # as_string(jc).v THEN ValueMismatch ELSE ""
            ELSE InternalError

\* C8 mutant: one expected audience found in the token is enough
verify_aud_any(jwt, c) ==
    IF ~has_claim(jwt.payload_claims, S_aud) THEN AudienceMismatch
    ELSE LET aud == get_audience(jwt.payload_claims)
             expected == as_set(c)
         IN IF ~aud.ok \/ ~expected.ok THEN ClaimTypeMismatch
            ELSE IF expected.v # {} /\ expected.v \cap aud.v = {} THEN AudienceMismatch
            ELSE ""

\* lines 1517-1525
verify_aud(jwt, c) ==
    IF ~has_claim(jwt.payload_claims, S_aud) THEN AudienceMismatch
    ELSE LET aud == get_audience(jwt.payload_claims)
             expected == as_set(c)
         IN IF ~aud.ok \/ ~expected.ok THEN ClaimTypeMismatch
            ELSE IF \E e \in expected.v : e \notin aud.v THEN AudienceMismatch
            ELSE ""

\* C23 mutant: the entries exp, iat and nbf are compared like any other
verify_claim_all(jwt, name, c) ==
    IF name = S_aud THEN R(verify_aud(jwt, c), <<"payload.aud">>)
    ELSE R(assert_claim_eq(jwt, name, c), <<"payload.claim">>)

\* the body of the loop over the required claims, lines 1514-1528
verify_claim(jwt, name, c) ==
    IF name = S_exp \/ name = S_iat \/ name = S_nbf THEN R("", <<>>)
    ELSE IF name = S_aud THEN R(verify_aud(jwt, c), <<"payload.aud">>)
    ELSE R(assert_claim_eq(jwt, name, c), <<"payload.claim">>)

\* for (auto& c : claims), in the order the unordered_map iterates
RECURSIVE verify_claims(_, _, _)
verify_claims(jwt, claims, order) ==
    IF order = <<>> THEN R("", <<>>)
    ELSE AndThen(verify_claim(jwt, Head(order), claims[Head(order)]),
                 verify_claims(jwt, claims, Tail(order)))

\* C4 mutant: the time claims and the required claims are checked before
\* the signature
verifier_verify_claims_first(jwt, claims, default_leeway, algs, time, order) ==
    AndThen(verify_exp(jwt, claims, default_leeway, time),
    AndThen(verify_iat(jwt, claims, default_leeway, time),
    AndThen(verify_nbf(jwt, claims, default_leeway, time),
    AndThen(verify_claims(jwt, claims, order),
            verify_signature(jwt, algs)))))

verifier_verify(jwt, claims, default_leeway, algs, time, order) ==
    AndThen(verify_signature(jwt, algs),
    AndThen(verify_exp(jwt, claims, default_leeway, time),
    AndThen(verify_iat(jwt, claims, default_leeway, time),
    AndThen(verify_nbf(jwt, claims, default_leeway, time),
            verify_claims(jwt, claims, order)))))

\* the orders in which an unordered_map with these keys may be iterated
Orders(keys) ==
    {o \in [1..Cardinality(keys) -> keys] : \A i, j \in DOMAIN o : i # j => o[i] # o[j]}

(***************************************************************************)
(* The state: one builder, one token on its way from the builder to the    *)
(* decoder, the decoded token, one verifier and its clock.                 *)
(***************************************************************************)
VARIABLES
    header_claims,   \* builder::header_claims
    payload_claims,  \* builder::payload_claims
    issued,          \* the last call of builder::sign: what it was given and returned
    token,           \* the compact string as it reaches jwt::decode
    tamper,          \* what was done to the string on its way
    stage,           \* "idle", "sign_failed", "signed", "decoded", "rejected"
    jwt,             \* the decoded_jwt constructed from token
    claims,          \* verifier::claims
    default_leeway,  \* verifier::default_leeway
    algs,            \* verifier::algs
    now,             \* what clock.now() returns
    result,          \* the outcome of verifier::verify(jwt) as the verifier stands
    got,             \* the outcome of the last accessor call on jwt
    thread_pc,       \* where each signing thread is in ecdsa::sign
    hmac_drbg,       \* random::hmac_drbg of each thread's ecdsa instance
    rand_next,       \* the hidden state of rand()
    rand_users       \* the threads whose sign calls have called rand()

vars == <<header_claims, payload_claims, issued, token, tamper, stage, jwt,
          claims, default_leeway, algs, now, result,
          got, thread_pc, hmac_drbg, rand_next, rand_users>>
accessor_vars == <<got>>
random_vars == <<thread_pc, hmac_drbg, rand_next, rand_users>>
builder_vars == <<header_claims, payload_claims>>
verifier_vars == <<claims, default_leeway, algs>>

\* the bounds of the model
MaxClaims == 2
MaxTime == 4
MaxLeeway == 2

S_a == <<97>>
S_b == <<98>>
S_c == <<99>>
S_x == <<120>>
S_JWT == <<74, 87, 84>>
Key1 == <<107, 49>>
Key2 == <<107, 50>>
\* an mbedtls_ecp_keypair with its private key, and one holding only the public key
KeyPair == [Q |-> 3, d |-> 3]
PublicKey == [Q |-> 3, d |-> 0]
\* the values mbedtls_hmac_drbg_random may deliver as the signing nonce
Nonces == {1, 2}

NoAlgs == [n \in {} |-> none]
NotRun == R("not run", <<>>)
NotIssued ==
    [ok |-> FALSE, algo |-> none, header_claims |-> EmptyClaims,
     payload_claims |-> EmptyClaims, token |-> <<>>]
NoTamper == [kind |-> "none", pos |-> 0, bit |-> 0]
NotCalled == [ok |-> FALSE, v |-> {}, err |-> "not called"]
\* two threads, each with an ecdsa instance of its own
Threads == {1, 2}

\* jwt::create(), jwt::verify(clock): an empty builder, a verifier without
\* required claims or algorithms and with default_leeway = 0
Construct ==
    /\ header_claims = EmptyClaims
    /\ payload_claims = EmptyClaims
    /\ issued = NotIssued
    /\ token = <<>>
    /\ tamper = NoTamper
    /\ stage = "idle"
    /\ jwt = NoJwt("none", <<>>)
    /\ claims = EmptyClaims
    /\ default_leeway = 0
    /\ algs = NoAlgs
    /\ result = NotRun
    /\ got = NotCalled
    /\ thread_pc = [t \in Threads |-> "idle"]
    /\ hmac_drbg = [t \in Threads |-> [reseed_counter |-> 1]]
    /\ rand_next = 0
    /\ rand_users = {}

(***************************************************************************)
(* The builder.                                                            *)
(***************************************************************************)
set_header_claim(id, c) ==
    /\ header_claims' = set_claim(header_claims, id, c)
    /\ UNCHANGED <<accessor_vars, random_vars, payload_claims, issued, token, tamper,
                   stage, jwt, verifier_vars, now, result>>

set_payload_claim(id, c) ==
    /\ payload_claims' = set_claim(payload_claims, id, c)
    /\ UNCHANGED <<accessor_vars, random_vars, header_claims, issued, token, tamper,
                   stage, jwt, verifier_vars, now, result>>

set_algorithm(str) == set_header_claim(S_alg, StringClaim(str))
set_type(str) == set_header_claim(S_typ, StringClaim(str))
set_issuer(str) == set_payload_claim(S_iss, StringClaim(str))
set_audience_set(l) == set_payload_claim(S_aud, SetClaim(l))
set_audience(aud) == set_payload_claim(S_aud, StringClaim(aud))
set_expires_at(d) == set_payload_claim(S_exp, DateClaim(d))
set_not_before(d) == set_payload_claim(S_nbf, DateClaim(d))
set_issued_at(d) == set_payload_claim(S_iat, DateClaim(d))

\* builder::sign(algo): the token leaves the builder; the decoded object of
\* an earlier token is gone
sign(algo, k) ==
    \E r \in {builder_sign(header_claims, payload_claims, algo, k)} :
       /\ header_claims' = r.header_claims
       /\ issued' = [ok |-> r.ok, algo |-> algo, header_claims |-> header_claims,
                     payload_claims |-> payload_claims, token |-> r.token]
       /\ token' = r.token
       /\ tamper' = NoTamper
       /\ stage' = IF r.ok THEN "signed" ELSE "sign_failed"
       /\ jwt' = NoJwt("none", <<>>)
       /\ result' = NotRun
       /\ UNCHANGED <<accessor_vars, random_vars, payload_claims, verifier_vars, now>>

(***************************************************************************)
(* The way from the builder to the decoder: the string jwt::decode is      *)
(* given is the caller's, who may have altered what sign returned.         *)
(***************************************************************************)
FlipBit(c, b) == IF (c \div Pow2(b)) % 2 = 1 THEN c - Pow2(b) ELSE c + Pow2(b)

\* the 0-based index of the first character after the second '.'
SignatureStart(tk) == find(tk, DOT, find(tk, DOT, 0) + 1) + 1

\* bit b of the i-th character of the signature segment is flipped
flip_segment_bit(i, b) ==
    /\ stage = "signed"
    /\ tamper = NoTamper
    /\ \E start \in {SignatureStart(token)} :
          /\ start + i <= Len(token)
          /\ token' = [token EXCEPT ![start + i] = FlipBit(@, b)]
    /\ tamper' = [kind |-> "bit", pos |-> i, bit |-> b]
    /\ UNCHANGED <<accessor_vars, random_vars, builder_vars, issued, stage, jwt,
                   verifier_vars, now, result>>

\* the signature segment is replaced by the encoding of sig
replace_signature(sig) ==
    /\ stage = "signed"
    /\ tamper = NoTamper
    /\ token' = substr(token, 0, SignatureStart(token)) \o encode(sig)
    /\ tamper' = [kind |-> "signature", pos |-> 0, bit |-> 0]
    /\ UNCHANGED <<accessor_vars, random_vars, builder_vars, issued, stage, jwt,
                   verifier_vars, now, result>>

\* jwt::decode(token): "rejected" when the constructor throws
decode ==
    /\ stage = "signed"
    /\ \E j \in {decoded_jwt(token)} :
          /\ jwt' = j
          /\ stage' = IF j.err = "" THEN "decoded" ELSE "rejected"
    /\ UNCHANGED <<accessor_vars, random_vars, builder_vars, issued, token, tamper,
                   verifier_vars, now, result>>

(***************************************************************************)
(* The verifier.  A call that changes the verifier voids the outcome of    *)
(* an earlier verify.                                                      *)
(***************************************************************************)
with_claim(name, c) ==
    /\ claims' = Put(claims, name, c)
    /\ result' = NotRun
    /\ UNCHANGED <<accessor_vars, random_vars, builder_vars, issued, token, tamper,
                   stage, jwt, default_leeway, algs, now>>

leeway(n) ==
    /\ default_leeway' = n
    /\ result' = NotRun
    /\ UNCHANGED <<accessor_vars, random_vars, builder_vars, issued, token, tamper,
                   stage, jwt, claims, algs, now>>

expires_at_leeway(n) == with_claim(S_exp, DateClaim(n))
not_before_leeway(n) == with_claim(S_nbf, DateClaim(n))
issued_at_leeway(n) == with_claim(S_iat, DateClaim(n))
with_audience(aud) == with_claim(S_aud, SetClaim(aud))

\* C28 mutant: a name that is registered keeps its instance (emplace)
allow_algorithm_first(alg) ==
    /\ algs' = [n \in DOMAIN algs \cup {algo_name(alg)} |->
                  IF n \in DOMAIN algs THEN algs[n] ELSE alg]
    /\ result' = NotRun
    /\ UNCHANGED <<accessor_vars, random_vars, builder_vars, issued, token, tamper,
                   stage, jwt, claims, default_leeway, now>>

\* algs[alg.name()] = std::make_shared<algo<Algorithm>>(alg)
allow_algorithm(alg) ==
    /\ algs' = [n \in DOMAIN algs \cup {algo_name(alg)} |->
                  IF n = algo_name(alg) THEN alg ELSE algs[n]]
    /\ result' = NotRun
    /\ UNCHANGED <<accessor_vars, random_vars, builder_vars, issued, token, tamper,
                   stage, jwt, claims, default_leeway, now>>

\* C15 mutant: the leeway of exp is looked up with claims["exp"], which
\* inserts a null claim where there is none
verify_inserting(order) ==
    /\ stage = "decoded"
    /\ result' = verifier_verify(jwt, claims, default_leeway, algs, now, order)
    /\ claims' = IF has_claim(claims, S_exp) THEN claims ELSE Put(claims, S_exp, NullClaim)
    /\ UNCHANGED <<accessor_vars, random_vars, builder_vars, issued, token, tamper,
                   stage, jwt, default_leeway, algs, now>>

\* verifier::verify(jwt) on the decoded token; order is the order in which
\* the loop meets the required claims
verify(order) ==
    /\ stage = "decoded"
    /\ result' = verifier_verify(jwt, claims, default_leeway, algs, now, order)
    /\ UNCHANGED <<accessor_vars, random_vars, builder_vars, issued, token, tamper,
                   stage, jwt, verifier_vars, now>>

\* decoded_jwt::get_algorithm, where the header has a String alg
get_algorithm(j) == as_string(j.header_claims[S_alg]).v

(***************************************************************************)
(* Spec: building and decoding.  Up to MaxClaims claims are set on a new   *)
(* builder, the token is signed with any algorithm and decoded.            *)
(***************************************************************************)
\* one value of each variant a claim can hold
ClaimValues ==
    {NullClaim, BoolClaim(TRUE), BoolClaim(FALSE), IntClaim(-7), NumberClaim(15),
     NumberClaim(-20), StringClaim(<<>>), StringClaim(S_a),
     <<"array", <<IntClaim(1), StringClaim(S_a)>>>>,
     <<"object", [n \in {S_a} |-> NumberClaim(5)]>>}

SigningAlgorithms ==
    {none, hs256(Key1), hs384(Key1), hs512(Key2),
     es256(KeyPair), es384(KeyPair), es512(KeyPair), es256(PublicKey)}

\* only ecdsa::sign draws a nonce
NoncesOf(algo) == IF algo.kind = "ecdsa" THEN Nonces ELSE {0}

NumClaims == Cardinality(DOMAIN header_claims) + Cardinality(DOMAIN payload_claims)
\* a builder that has not signed yet and holds fewer than MaxClaims claims
Building == stage = "idle" /\ NumClaims < MaxClaims

Init ==
    /\ Construct
    /\ now = 0

Setter ==
    /\ Building
    /\ \/ set_type(S_JWT)
       \/ set_algorithm(S_none)
       \/ set_header_claim(S_x, StringClaim(S_a))
       \/ set_issuer(S_a)
       \/ set_audience(S_a)
       \/ set_audience_set({S_a, S_b})
       \/ set_expires_at(MaxTime)
       \/ set_not_before(0)
       \/ set_issued_at(0)
       \/ \E c \in ClaimValues : set_payload_claim(S_x, c)

Sign ==
    /\ stage = "idle"
    /\ \E algo \in SigningAlgorithms : \E k \in NoncesOf(algo) : sign(algo, k)

Decode == decode

Next == Setter \/ Sign \/ Decode

Spec == Init /\ [][Next]_vars

\* m without the claim id
Without(m, id) == [n \in DOMAIN m \ {id} |-> m[n]]

VerifierAlgorithms == {none, hs256(Key1), hs256(Key2), hs384(Key1), es256(PublicKey)}
ForgedSignatures == {<<>>, <<1>>}

InitAlg ==
    /\ Construct
    /\ now = MaxTime

SetterAlg ==
    /\ Building
    /\ \/ set_expires_at(0)
       \/ set_audience(S_a)

Forge == \E sig \in ForgedSignatures : replace_signature(sig)

ConfigureAlg ==
    /\ stage = "decoded"
    /\ \/ \E alg \in VerifierAlgorithms : allow_algorithm(alg)
       \/ with_audience({S_b})

Verify == \E order \in Orders(DOMAIN claims) : verify(order)

NextAlg == SetterAlg \/ Sign \/ Forge \/ Decode \/ ConfigureAlg \/ Verify

SpecAlg == InitAlg /\ [][NextAlg]_vars

\* verify has run on jwt with the verifier and the clock as they stand
Verified == result # NotRun
\* the header of jwt has a String alg
HasAlgorithm == has_claim(jwt.header_claims, S_alg) /\ as_string(jwt.header_claims[S_alg]).ok
\* verify called the verify of a registered algorithm
AlgoVerifyInvoked == \E i \in DOMAIN result.trace : result.trace[i] = "algo.verify"
\* the signature step of verify was passed
SignaturePassed == AlgoVerifyInvoked /\ result.error # SignatureError
PayloadReads == {"payload.exp", "payload.iat", "payload.nbf", "payload.aud", "payload.claim"}

\* C2: when the String alg of the decoded header is not a registered name,
\* verify fails with UnsupportedAlgorithm and the verify of no registered
\* algorithm is invoked, whatever the signature, the time claims and the
\* required claims are.
C2_Whitelist ==
    (Verified /\ HasAlgorithm /\ get_algorithm(jwt) \notin DOMAIN algs) =>
        /\ result.error = UnsupportedAlgorithm
        /\ ~AlgoVerifyInvoked

\* a well-formed HS384 token met by a verifier that registered only HS256
C2_Witness ==
    /\ Verified
    /\ tamper = NoTamper
    /\ issued.algo = hs384(Key1)
    /\ get_algorithm(jwt) = S_HS384
    /\ DOMAIN algs = {S_HS256}
    /\ result.error = UnsupportedAlgorithm

\* C4: verify reads no payload claim before the verify of the resolved
\* algorithm has returned, and a token whose signature the resolved
\* algorithm rejects fails with SignatureError without any payload claim
\* being read, whatever exp, aud and the required claims are.
C4_SignatureFirst ==
    Verified =>
        /\ \A i \in DOMAIN result.trace :
              result.trace[i] \in PayloadReads =>
                 \E j \in 1..(i - 1) : result.trace[j] = "algo.verify"
        /\ (/\ HasAlgorithm
            /\ get_algorithm(jwt) \in DOMAIN algs
            /\ ~algo_verify(algs[get_algorithm(jwt)],
                            jwt.header_base64 \o <<DOT>> \o jwt.payload_base64,
                            jwt.signature))
           => /\ result.error = SignatureError
              /\ \A i \in DOMAIN result.trace : result.trace[i] \notin PayloadReads

\* an expired HS256 token without the required audience whose signature was
\* replaced: the outcome is SignatureError
C4_Witness ==
    /\ Verified
    /\ tamper.kind = "signature"
    /\ get_algorithm(jwt) = S_HS256
    /\ S_HS256 \in DOMAIN algs
    /\ has_claim(jwt.payload_claims, S_exp)
    /\ now > as_date(jwt.payload_claims[S_exp]).v + default_leeway
    /\ has_claim(claims, S_aud)
    /\ ~has_claim(jwt.payload_claims, S_aud)
    /\ result.error = SignatureError

\* C10: every token sign(none) returns ends with '.', its signature segment
\* being empty; and where none is registered, a token with alg = none
\* passes the signature step if its decoded signature is empty and fails
\* with SignatureError if it is not.
C10_None ==
    /\ (issued.ok /\ issued.algo = none) =>
          /\ issued.token # <<>>
          /\ issued.token[Len(issued.token)] = DOT
          /\ SignatureStart(issued.token) = Len(issued.token)
    /\ (Verified /\ HasAlgorithm /\ get_algorithm(jwt) = S_none /\ S_none \in DOMAIN algs) =>
          IF jwt.signature = <<>> THEN SignaturePassed
          ELSE result.error = SignatureError

\* a token signed with none that was given a non-empty signature is rejected
C10_Witness ==
    /\ Verified
    /\ issued.ok
    /\ issued.algo = none
    /\ tamper.kind = "signature"
    /\ jwt.signature # <<>>
    /\ S_none \in DOMAIN algs
    /\ result.error = SignatureError

(***************************************************************************)
(* SpecTamper: a token signed with an HMAC algorithm has one bit of its    *)
(* signature segment flipped on its way, is decoded, and is verified by a  *)
(* verifier that registered the algorithm and secret it was signed with.   *)
(***************************************************************************)
HmacAlgorithms == {hs256(Key1), hs384(Key1), hs512(Key1)}

SetterTamper == Building /\ set_issuer(S_a)

SignHmac ==
    /\ stage = "idle"
    /\ \E algo \in HmacAlgorithms : sign(algo, 0)

Flip == \E i \in 1..Len(token), b \in 0..7 : flip_segment_bit(i, b)

AllowIssued ==
    /\ stage = "decoded"
    /\ algs = NoAlgs
    /\ allow_algorithm(issued.algo)

NextTamper == SetterTamper \/ SignHmac \/ Flip \/ Decode \/ AllowIssued \/ Verify

SpecTamper == Init /\ [][NextTamper]_vars

\* C3: once one bit of the signature segment of an HMAC-signed token is
\* flipped, decoding it does not fail, and verifying it with the algorithm
\* and secret it was signed with fails with SignatureError.
C3_TamperDetected ==
    (tamper.kind = "bit" /\ issued.algo \in HmacAlgorithms) =>
        /\ stage # "rejected"
        /\ (Verified /\ algs = [n \in {algo_name(issued.algo)} |-> issued.algo]) =>
              result.error = SignatureError

(***************************************************************************)
(* SpecTime: the time claims.  A token with any of exp, nbf and iat is     *)
(* signed and decoded; the verifier registers the algorithm, sets leeways, *)
(* and verifies at any time of the clock.                                  *)
(***************************************************************************)
\* the instants the time claims of a token are set to
ExpTime == 1
NbfTime == 3
IatTime == 2

InitTime ==
    /\ Construct
    /\ now \in 0..MaxTime

SetterTime ==
    /\ stage = "idle"
    /\ \/ set_expires_at(ExpTime)
       \/ set_not_before(NbfTime)
       \/ set_issued_at(IatTime)

SignToken ==
    /\ stage = "idle"
    /\ sign(hs256(Key1), 0)

AllowSigner ==
    /\ stage = "decoded"
    /\ algs = NoAlgs
    /\ allow_algorithm(hs256(Key1))

ConfigureTime ==
    /\ stage = "decoded"
    /\ algs # NoAlgs
    /\ \E n \in 0..MaxLeeway :
          \/ leeway(n)
          \/ expires_at_leeway(n)
          \/ not_before_leeway(n)
          \/ issued_at_leeway(n)

NextTime == SetterTime \/ SignToken \/ Decode \/ AllowSigner \/ ConfigureTime \/ Verify

SpecTime == InitTime /\ [][NextTime]_vars

\* the instant the decoded payload gives the time claim name
TimeOf(name) == as_date(jwt.payload_claims[name]).v
\* leeway(name): the leeway set for the claim, or else the default leeway
LeewayFor(name) == IF has_claim(claims, name) THEN Val(claims[name]) ELSE default_leeway
\* verify has run and the signature step was passed
ValidSignature == Verified /\ SignaturePassed
ExpFails == has_claim(jwt.payload_claims, S_exp) /\ now > TimeOf(S_exp) + LeewayFor(S_exp)
IatFails == has_claim(jwt.payload_claims, S_iat) /\ now < TimeOf(S_iat) - LeewayFor(S_iat)
NbfFails == has_claim(jwt.payload_claims, S_nbf) /\ now < TimeOf(S_nbf) - LeewayFor(S_nbf)
\* what verify read last
LastRead == result.trace[Len(result.trace)]

\* C5: for a token with a valid signature and an exp claim, verify fails at
\* its exp check, with ExpiredToken, if and only if now > exp + leeway(exp);
\* now = exp + leeway(exp) passes the exp check, whatever later checks say.
C5_ExpCheck ==
    (ValidSignature /\ has_claim(jwt.payload_claims, S_exp)) =>
        /\ (result.error = ExpiredToken /\ LastRead = "payload.exp") <=> ExpFails
        /\ ~ExpFails => \E i \in DOMAIN result.trace : result.trace[i] = "payload.exp"

\* a token verified at the very instant exp + leeway(exp), the leeway being
\* an expires_at_leeway of 2 or more, is accepted
C5_Witness ==
    /\ ValidSignature
    /\ has_claim(jwt.payload_claims, S_exp)
    /\ has_claim(claims, S_exp)
    /\ LeewayFor(S_exp) >= 2
    /\ default_leeway = 0
    /\ now = TimeOf(S_exp) + LeewayFor(S_exp)
    /\ now > TimeOf(S_exp) + default_leeway
    /\ result.error = ""

\* C5 as stated, on the tokens without an nbf claim: for a token with a
\* valid signature and an exp claim, verify fails with ExpiredToken if and
\* only if now > exp + leeway(exp).
C5_ExpiredIff ==
    (/\ ValidSignature
     /\ has_claim(jwt.payload_claims, S_exp)
     /\ ~has_claim(jwt.payload_claims, S_nbf)) =>
        (result.error = ExpiredToken <=> ExpFails)

\* C6: for a token with a valid signature, no exp or iat failure and an nbf
\* claim, verify fails with NotYetValid if and only if now < nbf - leeway(nbf).
C6_NotYetValid ==
    (ValidSignature /\ ~ExpFails /\ ~IatFails /\ has_claim(jwt.payload_claims, S_nbf)) =>
        (result.error = NotYetValid <=> NbfFails)

\* C7: for a token with a valid signature, no exp failure and an iat claim,
\* verify fails with ExpiredToken if and only if now < iat - leeway(iat).
C7_IssuedAt ==
    (ValidSignature /\ ~ExpFails /\ has_claim(jwt.payload_claims, S_iat)) =>
        (result.error = ExpiredToken <=> IatFails)

(***************************************************************************)
(* SpecClaims: the required claims.  A token with or without an audience   *)
(* and a claim x is signed and decoded; the verifier registers the         *)
(* algorithm, requires an audience or a value of x, and verifies.          *)
(***************************************************************************)
\* the values of x: each variant whose comparison the specification gives,
\* and string arrays equal as sets but not as arrays
ComparedValues ==
    {BoolClaim(TRUE), BoolClaim(FALSE), IntClaim(-7), IntClaim(3), NumberClaim(15),
     NumberClaim(-20), StringClaim(<<>>), StringClaim(S_a), SetClaim({S_a}),
     SetClaim({S_a, S_b}), <<"array", <<StringClaim(S_b), StringClaim(S_a)>>>>,
     <<"array", <<StringClaim(S_a), StringClaim(S_a)>>>>}

TokenAudiences == {{S_a}, {S_a, S_b}, {S_a, S_b, S_c}}
RequiredAudiences == {{}, {S_a}, {S_a, S_b}, {S_c}}

SetterClaims ==
    /\ stage = "idle"
    /\ \/ set_audience(S_a)
       \/ \E l \in TokenAudiences : set_audience_set(l)
       \/ \E c \in ComparedValues : set_payload_claim(S_x, c)

ConfigureClaims ==
    /\ stage = "decoded"
    /\ algs # NoAlgs
    /\ \/ \E aud \in RequiredAudiences : with_audience(aud)
       \/ \E c \in ComparedValues : with_claim(S_x, c)

NextClaims == SetterClaims \/ SignToken \/ Decode \/ AllowSigner \/ ConfigureClaims \/ Verify

SpecClaims == Init /\ [][NextClaims]_vars

\* the audience set of the decoded token: a String aud is a singleton
AudienceOf(pc) ==
    IF TypeOf(pc[S_aud]) = "string" THEN {Val(pc[S_aud])}
    ELSE {Val(Val(pc[S_aud])[i]) : i \in DOMAIN Val(pc[S_aud])}
\* the set of strings a string array holds
StringsOf(c) == {Val(Val(c)[i]) : i \in DOMAIN Val(c)}

\* C8: where the only required claim is an audience set E and the signature
\* is valid, verify succeeds if and only if the token has an aud claim whose
\* audience set, a String aud being a singleton, is a superset of E.
C8_AudienceSuperset ==
    (ValidSignature /\ DOMAIN claims = {S_aud}) =>
        (result.error = ""
           <=> /\ has_claim(jwt.payload_claims, S_aud)
               /\ StringsOf(claims[S_aud]) \subseteq AudienceOf(jwt.payload_claims))

\* requiring {a, b}, a token with aud {a, b, c} is accepted
C8_Witness ==
    /\ ValidSignature
    /\ DOMAIN claims = {S_aud}
    /\ StringsOf(claims[S_aud]) = {S_a, S_b}
    /\ has_claim(jwt.payload_claims, S_aud)
    /\ AudienceOf(jwt.payload_claims) = {S_a, S_b, S_c}
    /\ result.error = ""

\* the claims c and d are of the same variant and equal: string arrays as
\* sets, every other variant by its value
EqualClaims(c, d) ==
    /\ TypeOf(c) = TypeOf(d)
    /\ IF TypeOf(c) = "array" THEN StringsOf(c) = StringsOf(d) ELSE Val(c) = Val(d)

\* C9: where the only required claim is a claim x that is a String, a
\* Boolean, a Float, an Int64 or a string array, and the signature is valid,
\* verify succeeds if and only if the payload has a claim x of the same
\* variant and an equal value, and fails with ClaimMismatch otherwise.
C9_RequiredClaim ==
    (ValidSignature /\ DOMAIN claims = {S_x}) =>
        IF /\ has_claim(jwt.payload_claims, S_x)
           /\ EqualClaims(claims[S_x], jwt.payload_claims[S_x])
          THEN result.error = ""
          ELSE result.error \in ClaimMismatch


(***************************************************************************)
(* SpecDecode: jwt::decode on strings that no builder produced.  The       *)
(* caller's string is made of up to three segments and separators.         *)
(***************************************************************************)
\* "", "e30" ({}), "e3" ({), "MQ" (1), "!!!", "b", "c"
Segments ==
    {<<>>, <<101, 51, 48>>, <<101, 51>>, <<77, 81>>, <<33, 33, 33>>, <<98>>, <<99>>}
\* signature segments: text after the second '.' may hold further '.'
\* "e30.c", "cc.c", "c."
SignatureSegments ==
    Segments \cup {<<101, 51, 48, DOT, 99>>, <<99, 99, DOT, 99>>, <<99, DOT>>}

SuppliedStrings ==
    Segments
      \cup {h \o <<DOT>> \o p : h \in Segments, p \in Segments}
      \cup {h \o <<DOT>> \o p \o <<DOT>> \o g
              : h \in Segments, p \in Segments, g \in SignatureSegments}

\* the caller holds a string of its own and will hand it to jwt::decode
receive(str) ==
    /\ stage = "idle"
    /\ token' = str
    /\ tamper' = [kind |-> "supplied", pos |-> 0, bit |-> 0]
    /\ stage' = "signed"
    /\ UNCHANGED <<accessor_vars, random_vars, builder_vars, issued, jwt,
                   verifier_vars, now, result>>

Receive == \E str \in SuppliedStrings : receive(str)

NextDecode == Receive \/ Decode

SpecDecode == Init /\ [][NextDecode]_vars

FormatError == "invalid_argument"
DecodeError == "runtime_error"

Separators(s) == Cardinality({i \in DOMAIN s : s[i] = DOT})
\* the three segments of a string with two separators or more
SegmentsOf(s) ==
    LET d1 == CHOOSE i \in DOMAIN s : s[i] = DOT /\ \A j \in 1..(i - 1) : s[j] # DOT
        d2 == CHOOSE i \in (d1 + 1)..Len(s) :
                 s[i] = DOT /\ \A j \in (d1 + 1)..(i - 1) : s[j] # DOT
    IN <<SubSeq(s, 1, d1 - 1), SubSeq(s, d1 + 1, d2 - 1), SubSeq(s, d2 + 1, Len(s))>>
\* a character that is neither of the alphabet nor the fill character
OutsideAlphabet(seg) == \E i \in DOMAIN seg : Sextet(seg[i]) < 0 /\ seg[i] # FILL
\* the segment decodes, to bytes that are no JSON text
NotJson(seg) ==
    LET bin == base_decode(fix_padding(seg))
    IN bin.ok /\ ~parse(bin.bin).ok
Decoded == stage \in {"decoded", "rejected"}

\* C11: decode of a string with fewer than two '.' fails with FormatError
\* (std::invalid_argument) and constructs no decoded token, also when its
\* text is no base64url; decode of a string with two separators that has a
\* segment with a character outside the alphabet, or a header or payload
\* whose bytes are no JSON text, fails with DecodeError (std::runtime_error).
C11_Malformed ==
    Decoded =>
      /\ Separators(token) < 2 =>
            (stage = "rejected" /\ jwt = NoJwt(FormatError, token))
      /\ (Separators(token) >= 2
            /\ LET seg == SegmentsOf(token)
               IN \/ \E i \in 1..3 : OutsideAlphabet(seg[i])
                  \/ NotJson(seg[1])
                  \/ NotJson(seg[2])) =>
            (stage = "rejected" /\ jwt = NoJwt(DecodeError, token))

\* "!!!.b" was given to decode: one separator and a text that is no
\* base64url, rejected as FormatError
C11_Witness ==
    /\ stage = "rejected"
    /\ Separators(token) = 1
    /\ OutsideAlphabet(token)
    /\ jwt.err = FormatError

\* the string without the '.' characters after its second one
WithoutExtraSeparators(s) ==
    LET seg == SegmentsOf(s)
    IN seg[1] \o <<DOT>> \o seg[2] \o <<DOT>> \o SelectSeq(seg[3], LAMBDA ch : ch # DOT)

\* C21 as stated: a string with more than two '.' is not rejected because
\* of the extra ones: where the string without them decodes, it decodes too.
C21_Absorbed ==
    (Decoded /\ Separators(token) > 2
       /\ decoded_jwt(WithoutExtraSeparators(token)).err = "")
      => stage = "decoded"

\* C21: decode of a string with more than two '.' does not fail with
\* FormatError: it splits at the first and second '.' and takes the rest,
\* further '.' included, as the signature segment; '.' being outside the
\* base64url alphabet, decoding that segment fails, so the string is
\* rejected with DecodeError (std::runtime_error) whatever its segments.
C21_ExtraSeparators ==
    (Decoded /\ Separators(token) > 2) =>
        /\ stage = "rejected"
        /\ jwt = NoJwt(DecodeError, token)
        /\ OutsideAlphabet(SegmentsOf(token)[3])

\* "e30.e30.cc.c" was given to decode: header and payload are {} and the
\* text after the second '.' has four characters, one of them a '.'
C21_Witness ==
    /\ stage = "rejected"
    /\ Separators(token) = 3
    /\ decoded_jwt(WithoutExtraSeparators(token)).err = ""
    /\ Len(SegmentsOf(token)[3]) % 4 = 0
    /\ jwt.err = DecodeError



(***************************************************************************)
(* SpecHeader: the caller sets the header claim alg itself, to a String    *)
(* or to a value of any other variant, before sign.                        *)
(***************************************************************************)
CallerAlgorithms == {S_none, S_HS256, S_a}

SetterHeader ==
    /\ Building
    /\ \/ \E x \in CallerAlgorithms : set_algorithm(x)
       \/ \E c \in ClaimValues : set_header_claim(S_alg, c)
       \/ set_type(S_JWT)
       \/ set_issuer(S_a)

NextHeader == SetterHeader \/ Sign \/ Decode

SpecHeader == Init /\ [][NextHeader]_vars

\* the token sign returned has been decoded as it was returned
DecodedAsIssued == issued.ok /\ tamper = NoTamper /\ stage = "decoded"

EcdsaAlgorithms == {es256(KeyPair), es384(KeyPair), es512(KeyPair)}

SetterEcdsa ==
    /\ Building
    /\ \/ set_issuer(S_a)
       \/ set_issuer(S_b)
       \/ set_type(S_JWT)
       \/ set_audience(S_a)

SignEcdsa ==
    /\ stage = "idle"
    /\ \E algo \in EcdsaAlgorithms : \E k \in Nonces : sign(algo, k)

AllowMatching ==
    /\ stage = "decoded"
    /\ algs = NoAlgs
    /\ \E keypair \in {KeyPair, PublicKey} :
          allow_algorithm(ecdsa(keypair, issued.algo.md, issued.algo.name))

NextEcdsa == SetterEcdsa \/ SignEcdsa \/ Decode \/ AllowMatching \/ Verify

SpecEcdsa == Init /\ [][NextEcdsa]_vars

\* the verifier has registered the algorithm of the token sign returned,
\* with the public key that matches the signing key
MatchingRegistered ==
    /\ DecodedAsIssued
    /\ issued.algo.kind = "ecdsa"
    /\ algo_name(issued.algo) \in DOMAIN algs
    /\ algs[algo_name(issued.algo)].kind = "ecdsa"
    /\ algs[algo_name(issued.algo)].Q = issued.algo.Q

\* C13: a token built with sign(ES256 / ES384 / ES512) on a key pair is
\* accepted by a verifier that registered the matching algorithm: verify
\* does not fail with SignatureError.
C13_EcdsaRoundTrip ==
    (Verified /\ MatchingRegistered) => result.error # SignatureError



\* the byte length of the order of the curve an ES256 / ES384 / ES512 key
\* is on (P-256, P-384, P-521)
curve_bytes(a) ==
    CASE a.md = 256 -> 32
      [] a.md = 384 -> 48
      [] a.md = 512 -> 66

\* C20: the signature ecdsa::sign returned, as the token carries it, has
\* twice the byte length of the curve order (one less when a leading zero
\* byte was dropped); when it has the full length its first half is the
\* big-endian r and its second half the big-endian s that the primitive
\* sign operation returned for the signing input and one of the nonces.
C20_RawSerialization ==
    (DecodedAsIssued /\ issued.algo.kind = "ecdsa") =>
       LET n == curve_bytes(issued.algo)
           sig == jwt.signature
           data == jwt.header_base64 \o <<DOT>> \o jwt.payload_base64
       IN /\ Len(sig) \in {2 * n, 2 * n - 1}
          /\ Len(sig) = 2 * n =>
               \E k \in Nonces :
                  LET p == primitive_ecdsa_sign(issued.algo,
                                                generate_hash(data, issued.algo.md), k)
                  IN /\ mpi_read_binary(SubSeq(sig, 1, n)) = p.r
                     /\ mpi_read_binary(SubSeq(sig, n + 1, 2 * n)) = p.s



(***************************************************************************)
(* SpecAudience: a token whose aud claim is absent or of any variant is    *)
(* signed and decoded, and the application calls get_audience on it.       *)
(***************************************************************************)
\* aud as null, boolean, int64, number, String, empty array, string array
\* with a duplicate, array with a non-string element, array of arrays, object
AudienceValues ==
    {NullClaim, BoolClaim(TRUE), IntClaim(1), NumberClaim(15), StringClaim(<<>>),
     StringClaim(S_a), <<"array", <<>>>>,
     <<"array", <<StringClaim(S_b), StringClaim(S_a), StringClaim(S_b)>>>>,
     <<"array", <<StringClaim(S_a), IntClaim(1)>>>>,
     <<"array", << <<"array", <<StringClaim(S_a)>>>> >>>>,
     <<"object", [n \in {S_a} |-> StringClaim(S_a)]>>}

SetterAudience ==
    /\ Building
    /\ \/ \E c \in AudienceValues : set_payload_claim(S_aud, c)
       \/ set_audience(S_b)
       \/ set_audience_set({S_a, S_b})
       \/ set_issuer(S_a)

\* decoded_jwt::get_audience() called on the decoded token
call_get_audience ==
    /\ stage = "decoded"
    /\ got' = get_audience(jwt.payload_claims)
    /\ UNCHANGED <<random_vars, builder_vars, issued, token, tamper, stage, jwt,
                   verifier_vars, now, result>>

NextAudience == SetterAudience \/ Sign \/ Decode \/ call_get_audience

SpecAudience == Init /\ [][NextAudience]_vars

\* an array all of whose elements are Strings
IsStringArray(c) ==
    TypeOf(c) = "array" /\ \A i \in DOMAIN Val(c) : TypeOf(Val(c)[i]) = "string"

SetterRepeat ==
    /\ Building
    /\ \/ set_expires_at(ExpTime)
       \/ set_not_before(NbfTime)
       \/ set_audience(S_a)

ConfigureRepeat ==
    /\ stage = "decoded"
    /\ \/ allow_algorithm(hs256(Key1))
       \/ \E n \in {0, MaxLeeway} : leeway(n) \/ expires_at_leeway(n)
       \/ \E aud \in {{S_a}, {S_b}} : with_audience(aud)

NextRepeat ==
    SetterRepeat \/ SignToken \/ Forge \/ Decode \/ ConfigureRepeat \/ Verify

SpecRepeat == InitTime /\ [][NextRepeat]_vars

\* a step in which a call of verify gives an outcome that was not there
VerifyStep == result' # NotRun /\ result' # result

ConfigureLeeway ==
    /\ stage = "decoded"
    /\ algs # NoAlgs
    /\ \E n \in {0, MaxLeeway} :
          \/ leeway(n)
          \/ expires_at_leeway(n)
          \/ not_before_leeway(n)
          \/ issued_at_leeway(n)

NextLeeway ==
    SetterTime \/ SignToken \/ Decode \/ AllowSigner \/ ConfigureLeeway \/ Verify

SpecLeeway == InitTime /\ [][NextLeeway]_vars

TimeClaims == {S_exp, S_nbf, S_iat}
\* the leeway configured for the claim name in the required claims cl:
\* <<n>>, or <<>> where none is configured
Override(cl, name) == IF has_claim(cl, name) THEN <<Val(cl[name])>> ELSE <<>>
\* verify failed with ExpiredToken at the check that reads the claim
FailsAt(read) == result.error = ExpiredToken /\ LastRead = read

\* C17: each of the exp, iat and nbf checks of verify uses the leeway
\* configured for its own claim, or else the default leeway: the check that
\* fails first, if any, is the one the three conditions give with these
\* leeways.  Setting the default leeway changes no override and setting the
\* override of one claim changes neither the default leeway nor the
\* override of another claim, so the order of the calls does not matter.
C17_LeewaySelection ==
    /\ [](ValidSignature =>
            /\ FailsAt("payload.exp") <=> ExpFails
            /\ FailsAt("payload.iat") <=> (~ExpFails /\ IatFails)
            /\ FailsAt("payload.nbf") <=> (~ExpFails /\ ~IatFails /\ NbfFails)
            /\ result.error = "" <=> (~ExpFails /\ ~IatFails /\ ~NbfFails))
    /\ [][<<claims, default_leeway>>' # <<claims, default_leeway>> =>
            /\ default_leeway' # default_leeway => claims' = claims
            /\ \A name \in TimeClaims :
                  Override(claims', name) # Override(claims, name) =>
                     /\ default_leeway' = default_leeway
                     /\ \A other \in TimeClaims \ {name} :
                           Override(claims', other) = Override(claims, other)]_vars

\* an exp leeway of MaxLeeway is set and none for iat: a token whose iat is
\* ahead of the clock by no more than MaxLeeway fails at the iat check, for
\* which the default leeway 0 is used
C17_Witness ==
    /\ ValidSignature
    /\ Override(claims, S_exp) = <<MaxLeeway>>
    /\ Override(claims, S_iat) = <<>>
    /\ default_leeway = 0
    /\ has_claim(jwt.payload_claims, S_iat)
    /\ now < TimeOf(S_iat)
    /\ now >= TimeOf(S_iat) - MaxLeeway
    /\ FailsAt("payload.iat")

\* the payload claim that a time check of verify reads
ReadOf(name) ==
    CASE name = S_exp -> "payload.exp"
      [] name = S_iat -> "payload.iat"
      [] name = S_nbf -> "payload.nbf"
\* verify performed the check of the claim
Performed(name) == \E i \in DOMAIN result.trace : result.trace[i] = ReadOf(name)
\* the time checks that verify makes before the one of the claim
ChecksBefore(name) ==
    CASE name = S_exp -> {}
      [] name = S_iat -> {S_exp}
      [] name = S_nbf -> {S_exp, S_iat}

\* C22: a token with a valid signature and none of exp, nbf, iat never fails
\* with ExpiredToken or NotYetValid, whatever the clock, the default leeway
\* and the overrides are; verify performs the check of a time claim only
\* where the token has the claim, and where the token has it the check is
\* left out only when an earlier time check has failed.
C22_PresenceOnly ==
    ValidSignature =>
       /\ (\A name \in TimeClaims : ~has_claim(jwt.payload_claims, name)) =>
             /\ result.error \notin {ExpiredToken, NotYetValid}
             /\ result.error = ""
       /\ \A name \in TimeClaims :
             /\ Performed(name) => has_claim(jwt.payload_claims, name)
             /\ (has_claim(jwt.payload_claims, name) /\ ~Performed(name)) =>
                    \E earlier \in ChecksBefore(name) : FailsAt(ReadOf(earlier))

\* a token without time claims was verified with the clock at MaxTime, the
\* default leeway 0 and an exp override of 0
C22_Witness ==
    /\ ValidSignature
    /\ \A name \in TimeClaims : ~has_claim(jwt.payload_claims, name)
    /\ now = MaxTime
    /\ default_leeway = 0
    /\ Override(claims, S_exp) = <<0>>
    /\ result.error = ""



(***************************************************************************)
(* SpecRandom: two threads sign, each on an ecdsa instance of its own.     *)
(* ecdsa::sign gives mbedtls_ecdsa_sign the generator of the instance,     *)
(* random::static_random on rnd.hmac_drbg; the generator was seeded in the *)
(* constructor of random with myrand as its entropy source, and it calls   *)
(* its entropy source again once it has served reseed_interval requests.   *)
(* myrand calls rand(), whose state belongs to the process.                *)
(***************************************************************************)
\* reseed_interval of the generator; mbedtls sets 10000
ReseedInterval == 2
\* the number of states of rand() that the model tells apart
RandStates == 4

\* ecdsa::sign up to the call of mbedtls_ecdsa_sign, which asks the
\* generator of the instance for the signing nonce
ecdsa_sign_begin(t) ==
    /\ thread_pc[t] = "idle"
    /\ thread_pc' = [thread_pc EXCEPT ![t] = "static_random"]
    /\ UNCHANGED <<accessor_vars, hmac_drbg, rand_next, rand_users, builder_vars,
                   issued, token, tamper, stage, jwt, verifier_vars, now, result>>

\* random::static_random, mbedtls_hmac_drbg_random: a request is served from
\* the state of the instance, unless a reseed is due first
static_random(t) ==
    /\ thread_pc[t] = "static_random"
    /\ IF hmac_drbg[t].reseed_counter > ReseedInterval
         THEN /\ thread_pc' = [thread_pc EXCEPT ![t] = "myrand"]
              /\ UNCHANGED hmac_drbg
         ELSE /\ thread_pc' = [thread_pc EXCEPT ![t] = "idle"]
              /\ hmac_drbg' = [hmac_drbg EXCEPT ![t].reseed_counter = @ + 1]
    /\ UNCHANGED <<accessor_vars, rand_next, rand_users, builder_vars, issued, token,
                   tamper, stage, jwt, verifier_vars, now, result>>

\* myrand, the entropy source: rand() reads and writes its hidden state;
\* then the request is served from the reseeded generator and sign returns
myrand(t) ==
    /\ thread_pc[t] = "myrand"
    /\ rand_next' = (rand_next + 1) % RandStates
    /\ rand_users' = rand_users \cup {t}
    /\ hmac_drbg' = [hmac_drbg EXCEPT ![t].reseed_counter = 2]
    /\ thread_pc' = [thread_pc EXCEPT ![t] = "idle"]
    /\ UNCHANGED <<accessor_vars, builder_vars, issued, token, tamper, stage, jwt,
                   verifier_vars, now, result>>

NextRandom ==
    \E t \in Threads : ecdsa_sign_begin(t) \/ static_random(t) \/ myrand(t)

SpecRandom == Init /\ [][NextRandom]_vars

\* C16: whatever the interleaving of the sign calls of the two threads, no
\* state of a generator, the state it is seeded from included, is read or
\* written by both threads: at most one thread has touched the state of
\* rand().
C16_PerInstance == Cardinality(rand_users) <= 1



(***************************************************************************)
(* SpecHmac: a token signed with an HMAC algorithm reaches the decoder     *)
(* with its signature left alone, cut short, extended or changed in a      *)
(* byte, and is verified by a verifier that registered the algorithm with  *)
(* the signing secret or with another one.                                 *)
(***************************************************************************)
\* the text of a token before its second '.'
SigningInput(tk) == SegmentsOf(tk)[1] \o <<DOT>> \o SegmentsOf(tk)[2]
\* what sign(data) returns under algorithm a for the signing input of tk
ExpectedSignature(a, tk) == algo_sign(a, SigningInput(tk), 0).sig
\* s with its byte at position i changed
OtherByte(s, i) == [s EXCEPT ![i] = (@ + 1) % 256]

SignatureVariants(s) ==
    {<<>>, SubSeq(s, 1, 1), SubSeq(s, 1, Len(s) - 1), s \o <<0>>, s \o s,
     OtherByte(s, 1), OtherByte(s, Len(s)), OtherByte(OtherByte(s, 1), Len(s))}

ForgeHmac ==
    /\ stage = "signed"
    /\ \E sig \in SignatureVariants(ExpectedSignature(issued.algo, token)) :
          replace_signature(sig)

AllowHmac ==
    /\ stage = "decoded"
    /\ algs = NoAlgs
    /\ \E key \in {Key1, Key2} :
          allow_algorithm(hmacsha(key, issued.algo.md, issued.algo.name))

NextHmac == SetterTamper \/ SignHmac \/ ForgeHmac \/ Decode \/ AllowHmac \/ Verify

SpecHmac == Init /\ [][NextHmac]_vars

\* verify has handed the signature to a registered HMAC algorithm
HmacVerified ==
    /\ Verified
    /\ AlgoVerifyInvoked
    /\ algs[get_algorithm(jwt)].kind = "hmacsha"

\* C18: the verify of HS256 / HS384 / HS512 with secret K accepts a
\* signature if and only if it is, byte for byte and in length, what sign
\* returns for the data under K; every other signature, a proper prefix
\* (the empty one too) and an extension of the expected one included, fails
\* with SignatureError; and the loop reads every position that both have.
C18_ExactEquality ==
    HmacVerified =>
       LET expected == ExpectedSignature(algs[get_algorithm(jwt)], token)
       IN /\ result.error # SignatureError <=> jwt.signature = expected
          /\ hmacsha_compare(expected, jwt.signature, 1, TRUE).visited
               = Min(Len(expected), Len(jwt.signature))

\* the expected signature followed by a zero byte was rejected
C18_Witness ==
    /\ HmacVerified
    /\ LET expected == ExpectedSignature(algs[get_algorithm(jwt)], token)
       IN /\ Len(jwt.signature) = Len(expected) + 1
          /\ SubSeq(jwt.signature, 1, Len(expected)) = expected
    /\ result.error = SignatureError



(***************************************************************************)
(* SpecRaw: tokens written by hand reach the decoder.  Their headers and   *)
(* payloads decode to the same JSON from different segment texts (members  *)
(* in another order, spare bits set in the last character, fill characters *)
(* kept), and each is signed over the text of one of them.                 *)
(***************************************************************************)
Member(name, value) == <<QUOTE>> \o name \o <<QUOTE, COLON>> \o serialize(StringClaim(value))
Object(members) == <<LBRACE>> \o Join(members, COMMA) \o <<RBRACE>>

RawHeaders ==
    {encode(Object(<<Member(S_alg, S_HS256), Member(S_typ, S_JWT)>>)),
     encode(Object(<<Member(S_typ, S_JWT), Member(S_alg, S_HS256)>>))}

\* the segment encode writes for {}, the same with a spare bit set in its
\* last character, and the same with its fill character kept
RawPayloads ==
    LET written == encode(Object(<<>>))
    IN {written,
        [written EXCEPT ![Len(written)] = @ + 1],
        base_encode(Object(<<>>))}

CraftedTokens ==
    {h \o <<DOT>> \o p \o <<DOT>>
       \o encode(hmacsha_sign(hs256(Key1), h2 \o <<DOT>> \o p2).sig)
     : <<h, p, h2, p2>> \in RawHeaders \X RawPayloads \X RawHeaders \X RawPayloads}

ReceiveCrafted == \E str \in CraftedTokens : receive(str)

NextRaw == ReceiveCrafted \/ Decode \/ AllowSigner \/ Verify

SpecRaw == Init /\ [][NextRaw]_vars

SameJson(j1, j2) ==
    /\ j1.header_claims = j2.header_claims
    /\ j1.payload_claims = j2.payload_claims

SameSegments(j1, j2) ==
    /\ j1.header_base64 = j2.header_base64
    /\ j1.payload_base64 = j2.payload_base64

\* C19: the data verify hands to the algorithm is the text of the token
\* before its second '.', so verify accepts the signature exactly when it is
\* the signature of that text; and a token whose header and payload decode
\* to the same JSON from other segment texts has another signing input.
C19_EncodedForm ==
    stage = "decoded" =>
       /\ signing_input(jwt) = SigningInput(token)
       /\ (Verified /\ AlgoVerifyInvoked) =>
             (result.error # SignatureError
                <=> jwt.signature = ExpectedSignature(algs[get_algorithm(jwt)], token))
       /\ \A other \in CraftedTokens :
             LET j2 == decoded_jwt(other)
             IN (j2.err = "" /\ SameJson(j2, jwt) /\ ~SameSegments(j2, jwt))
                   => signing_input(j2) # signing_input(jwt)

\* a token whose segments are not the ones encode writes for its JSON,
\* signed over its own text, was accepted
C19_Witness ==
    /\ stage = "decoded"
    /\ Verified
    /\ signing_input(jwt) # signing_input_reencoded(jwt)
    /\ SameJson(jwt, decoded_jwt(signing_input_reencoded(jwt) \o <<DOT>>))
    /\ result.error = ""



(***************************************************************************)
(* SpecOverride: the verifier gets entries under the names exp, nbf and    *)
(* iat, through the leeway setters and through with_claim with an Int64 or *)
(* a String claim, for tokens that carry any of the three time claims.     *)
(***************************************************************************)
OverrideClaims == {DateClaim(0), DateClaim(MaxLeeway), StringClaim(S_a)}

ConfigureOverride ==
    /\ stage = "decoded"
    /\ algs # NoAlgs
    /\ \/ expires_at_leeway(MaxLeeway)
       \/ not_before_leeway(MaxLeeway)
       \/ issued_at_leeway(MaxLeeway)
       \/ \E name \in TimeClaims, c \in OverrideClaims : with_claim(name, c)

NextOverride ==
    SetterTime \/ SignToken \/ Decode \/ AllowSigner \/ ConfigureOverride \/ Verify

SpecOverride == InitTime /\ [][NextOverride]_vars

\* the entry under the name cannot be read as a number of seconds
NoSeconds(name) == has_claim(claims, name) /\ ~as_date(claims[name]).ok
\* the check of the claim fails, the entry under its name taken as its leeway
CheckFails(name) ==
    /\ has_claim(jwt.payload_claims, name)
    /\ \/ NoSeconds(name)
       \/ CASE name = S_exp -> ExpFails
            [] name = S_iat -> IatFails
            [] name = S_nbf -> NbfFails

\* C23: an entry of the verifier under exp, nbf or iat, set by a leeway
\* setter or by with_claim, is the leeway of that claim's time check and
\* nothing else: verify compares no token claim with it (it never fails with
\* a claim mismatch), a token passes exactly when none of the checks of its
\* own time claims fails with these leeways, and so a token that lacks the
\* claim passes where its other claims do.
C23_LeewayOnly ==
    ValidSignature =>
       /\ result.error \notin ClaimMismatch
       /\ \A i \in DOMAIN result.trace : result.trace[i] # "payload.claim"
       /\ result.error = "" <=> \A name \in TimeClaims : ~CheckFails(name)
       /\ (\A name \in DOMAIN claims : ~has_claim(jwt.payload_claims, name)) =>
             (result.error = ""
                <=> \A name \in TimeClaims \ DOMAIN claims : ~CheckFails(name))

\* entries are set under exp (a String) and under iat (MaxLeeway, which is
\* not the token's iat at a clock before it); the token has iat and no exp,
\* and passes
C23_Witness ==
    /\ ValidSignature
    /\ has_claim(claims, S_exp)
    /\ TypeOf(claims[S_exp]) = "string"
    /\ ~has_claim(jwt.payload_claims, S_exp)
    /\ has_claim(claims, S_iat)
    /\ has_claim(jwt.payload_claims, S_iat)
    /\ now < TimeOf(S_iat)
    /\ result.error = ""



(***************************************************************************)
(* SpecVariant: the time claims of the token are set with                  *)
(* set_payload_claim to an Int64, a String or a Float, in any combination. *)
(***************************************************************************)
\* 1.5 as a Float
Float15 == NumberClaim(15)

SetterVariant ==
    /\ stage = "idle"
    /\ \/ set_expires_at(ExpTime)
       \/ set_not_before(NbfTime)
       \/ set_issued_at(IatTime)
       \/ \E name \in TimeClaims, c \in {StringClaim(S_a), Float15} :
             set_payload_claim(name, c)

ConfigureVariant ==
    /\ stage = "decoded"
    /\ algs # NoAlgs
    /\ \/ leeway(MaxLeeway)
       \/ expires_at_leeway(MaxLeeway)

NextVariant ==
    SetterVariant \/ SignToken \/ Decode \/ AllowSigner \/ ConfigureVariant \/ Verify

SpecVariant == InitTime /\ [][NextVariant]_vars

\* the token has the claim and it is no Int64
NonInt(name) ==
    has_claim(jwt.payload_claims, name) /\ TypeOf(jwt.payload_claims[name]) # "int64"
\* the time claims in the order verify checks them
CheckOrder == <<S_exp, S_iat, S_nbf>>
\* the first claim verify checks that is no Int64
FirstNonInt == CheckOrder[CHOOSE i \in 1..3 : NonInt(CheckOrder[i]) /\ \A j \in 1..(i - 1) : ~NonInt(CheckOrder[j])]

\* C24 as stated: a present time claim that is no Int64 makes verify fail
\* with the type-mismatch error.
C24_TypeMismatch ==
    (ValidSignature /\ \E name \in TimeClaims : NonInt(name)) =>
        result.error = ClaimTypeMismatch

\* C24: a token with a valid signature and a present exp, nbf or iat that
\* is no Int64 is never verified, whatever the clock and the leeways are:
\* verify fails with the type-mismatch error at the check of the first such
\* claim, unless the check of an Int64 time claim made before it fails, and
\* then it fails with ExpiredToken.
C24_NonIntRejected ==
    (ValidSignature /\ \E name \in TimeClaims : NonInt(name)) =>
        /\ result.error # ""
        /\ IF \E earlier \in ChecksBefore(FirstNonInt) : CheckFails(earlier)
             THEN result.error = ExpiredToken
             ELSE /\ result.error = ClaimTypeMismatch
                  /\ LastRead = ReadOf(FirstNonInt)

\* a token with an exp that has not passed and a Float nbf was refused with
\* the type-mismatch error
C24_Witness ==
    /\ ValidSignature
    /\ has_claim(jwt.payload_claims, S_exp)
    /\ ~NonInt(S_exp)
    /\ now <= TimeOf(S_exp)
    /\ ~has_claim(jwt.payload_claims, S_iat)
    /\ has_claim(jwt.payload_claims, S_nbf)
    /\ jwt.payload_claims[S_nbf] = Float15
    /\ result.error = ClaimTypeMismatch



(***************************************************************************)
(* SpecNoAlg: tokens written by hand whose header has no alg, or an alg of *)
(* another variant than String, are decoded and verified by verifiers that *)
(* registered any set of algorithms, the empty one too.                    *)
(***************************************************************************)
ClaimMember(name, c) == <<QUOTE>> \o name \o <<QUOTE, COLON>> \o serialize(c)

\* {}, {"typ":"JWT"}, {"alg":1}, {"alg":null}, {"alg":["none"]}, {"alg":"none"}
HeaderTexts ==
    {Object(<<>>), Object(<<Member(S_typ, S_JWT)>>)}
      \cup {Object(<<ClaimMember(S_alg, c)>>)
              : c \in {IntClaim(1), NullClaim, SetClaim({S_none}), StringClaim(S_none)}}

\* each header with the payload {} and with no signature or the HS256 one
HeaderTokens ==
    {tk \o <<DOT>> \o sig
       : <<tk, sig>> \in
           UNION {{<<t, <<>>>>, <<t, encode(hmacsha_sign(hs256(Key1), t).sig)>>}
                    : t \in {encode(h) \o <<DOT>> \o encode(Object(<<>>)) : h \in HeaderTexts}}}

ReceiveHeader == \E str \in HeaderTokens : receive(str)

RegisteredAlgorithms == {none, hs256(Key1), hs384(Key1)}

AllowAny ==
    /\ stage = "decoded"
    /\ \E alg \in RegisteredAlgorithms : allow_algorithm(alg)

NextNoAlg == ReceiveHeader \/ Decode \/ AllowAny \/ Verify

SpecNoAlg == Init /\ [][NextNoAlg]_vars

\* C25: verify of a decoded token whose header has no alg fails with
\* ClaimNotFound, and of one whose alg is no String with ClaimTypeMismatch;
\* in both cases it has read the header alg and nothing else, looked up no
\* algorithm and invoked none, whatever the verifier has registered.
C25_AlgRequired ==
    (stage = "decoded" /\ Verified /\ ~HasAlgorithm) =>
        /\ result.error =
             (IF has_claim(jwt.header_claims, S_alg) THEN ClaimTypeMismatch ELSE ClaimNotFound)
        /\ result.trace = <<"header.alg">>
        /\ ~AlgoVerifyInvoked

\* a token with the header {} and no signature was refused with
\* ClaimNotFound by a verifier that registered none and HS256
C25_Witness ==
    /\ stage = "decoded"
    /\ Verified
    /\ ~has_claim(jwt.header_claims, S_alg)
    /\ jwt.signature = <<>>
    /\ {S_none, S_HS256} \subseteq DOMAIN algs
    /\ result.error = ClaimNotFound



(***************************************************************************)
(* SpecText: the decoder is given tokens that a builder signed and tokens  *)
(* written by hand, some with their fill characters kept.                  *)
(***************************************************************************)
NextText == Setter \/ Sign \/ ReceiveCrafted \/ Decode

SpecText == Init /\ [][NextText]_vars

\* the text of a segment before decoding, and the bytes decoded from it
RawSegments == <<jwt.header_base64, jwt.payload_base64, jwt.signature_base64>>
DecodedSegments == <<jwt.header, jwt.payload, jwt.signature>>

\* C26: a decoded token keeps the text it was decoded from: get_token() is
\* the string given to decode, the three raw segments joined by '.' are
\* that string, each raw segment is the substring of the string between
\* the separators without the fill characters that decoding adds, and the
\* raw header and payload hold no '.'.
C26_OriginalText ==
    stage = "decoded" =>
       /\ jwt.token = token
       /\ RawSegments[1] \o <<DOT>> \o RawSegments[2] \o <<DOT>> \o RawSegments[3] = token
       /\ RawSegments = SegmentsOf(token)
       /\ \A i \in 1..3 :
             DecodedSegments[i] = base_decode(fix_padding(RawSegments[i])).bin
       /\ \A i \in 1..2 : \A k \in DOMAIN RawSegments[i] : RawSegments[i][k] # DOT

\* a signed token was decoded whose header, payload and signature segments
\* all need fill characters to be decoded
C26_Witness ==
    /\ stage = "decoded"
    /\ tamper = NoTamper
    /\ \A i \in 1..3 : Len(RawSegments[i]) % 4 # 0
    /\ jwt.token = token



(***************************************************************************)
(* SpecReuse: one builder is given setter calls and sign calls in any      *)
(* order and number; a sign may follow a sign, and setters may follow it.  *)
(***************************************************************************)
ReuseAlgorithms == {none, hs256(Key1)}
ReuseHeaderCalls == {<<S_typ, StringClaim(S_JWT)>>, <<S_alg, StringClaim(S_a)>>}
\* set_issuer("a"), set_issuer("b"), set_audience("a"), set_audience({"a", "b"})
ReusePayloadCalls ==
    {<<S_iss, StringClaim(S_a)>>, <<S_iss, StringClaim(S_b)>>,
     <<S_aud, StringClaim(S_a)>>, <<S_aud, SetClaim({S_a, S_b})>>}

SetterReuse ==
    \/ set_type(S_JWT)
    \/ set_algorithm(S_a)
    \/ \E str \in {S_a, S_b} : set_issuer(str)
    \/ set_audience(S_a)
    \/ set_audience_set({S_a, S_b})

SignReuse == \E algo \in ReuseAlgorithms : sign(algo, 0)

NextReuse == SetterReuse \/ SignReuse

SpecReuse == Init /\ [][NextReuse]_vars

\* the claims m with the claim id written last
LastWrite(m, id, c) == [n \in DOMAIN m \cup {id} |-> IF n = id THEN c ELSE m[n]]

\* C27: sign leaves the builder its payload claims and its header claims,
\* alg set to the name of the algorithm given, and the token it returns
\* holds exactly these claims, whatever was signed or set before; a setter
\* writes the claim it names, over any earlier value (set_audience of a
\* string and of a set write the one aud), and changes no other claim.
C27_LastWriteWins ==
    /\ [](issued.ok =>
            LET j == decoded_jwt(issued.token)
            IN /\ j.err = ""
               /\ j.payload_claims = issued.payload_claims
               /\ j.header_claims
                    = LastWrite(issued.header_claims, S_alg, StringClaim(algo_name(issued.algo))))
    /\ [][/\ \A algo \in ReuseAlgorithms :
                sign(algo, 0) =>
                   /\ payload_claims' = payload_claims
                   /\ header_claims' = LastWrite(header_claims, S_alg, StringClaim(algo_name(algo)))
                   /\ issued'.payload_claims = payload_claims
                   /\ issued'.header_claims = header_claims
          /\ \A call \in ReusePayloadCalls :
                set_payload_claim(call[1], call[2]) =>
                   /\ payload_claims' = LastWrite(payload_claims, call[1], call[2])
                   /\ header_claims' = header_claims
          /\ \A call \in ReuseHeaderCalls :
                set_header_claim(call[1], call[2]) =>
                   /\ header_claims' = LastWrite(header_claims, call[1], call[2])
                   /\ payload_claims' = payload_claims]_vars

\* the builder has signed with none, and then, with an audience set since,
\* with HS256: the token has alg HS256 and the builder keeps the audience
C27_Witness ==
    /\ issued.ok
    /\ has_claim(issued.header_claims, S_alg)
    /\ issued.header_claims[S_alg] = StringClaim(S_none)
    /\ issued.algo = hs256(Key1)
    /\ has_claim(payload_claims, S_aud)
    /\ payload_claims = issued.payload_claims
    /\ decoded_jwt(issued.token).header_claims[S_alg] = StringClaim(S_HS256)



(***************************************************************************)
(* SpecRegistry: the verifier is given allow_algorithm calls in any order  *)
(* and number, with instances of the same name that hold different         *)
(* secrets, and verifies tokens signed with HS256, HS384 or HS512.         *)
(***************************************************************************)
RegistryAlgorithms == {none, hs256(Key1), hs256(Key2), hs384(Key1), hs384(Key2)}

AllowReplace ==
    /\ stage = "decoded"
    /\ \E alg \in RegistryAlgorithms : allow_algorithm(alg)

NextRegistry == SetterTamper \/ SignHmac \/ Decode \/ AllowReplace \/ Verify

SpecRegistry == Init /\ [][NextRegistry]_vars

\* C28: every instance of the registry is held under its own name; a call
\* of allow_algorithm puts its instance under its name, in the place of the
\* one held there, leaves the instances under other names, and no step
\* removes a name; so a token signed with HS256 and a secret fails with
\* SignatureError once HS256 is held with another secret, and passes the
\* signature check when HS256 is held with its own.
C28_Registry ==
    /\ [](/\ \A n \in DOMAIN algs : algo_name(algs[n]) = n
          /\ (Verified /\ AlgoVerifyInvoked) =>
                (result.error = SignatureError
                   <=> algs[get_algorithm(jwt)].secret # issued.algo.secret))
    /\ [][/\ DOMAIN algs \subseteq DOMAIN algs'
          /\ \A alg \in RegistryAlgorithms :
                allow_algorithm(alg) =>
                   /\ DOMAIN algs' = DOMAIN algs \cup {algo_name(alg)}
                   /\ algs'[algo_name(alg)] = alg
                   /\ \A n \in DOMAIN algs \ {algo_name(alg)} : algs'[n] = algs[n]]_vars

\* HS256 is held with the second secret and HS384 with the first: the token
\* signed with HS256 and the first secret fails with SignatureError
C28_Witness ==
    /\ Verified
    /\ issued.algo = hs256(Key1)
    /\ DOMAIN algs = {S_HS256, S_HS384}
    /\ algs[S_HS256] = hs256(Key2)
    /\ algs[S_HS384] = hs384(Key1)
    /\ result.error = SignatureError


=============================================================================
